---- MODULE Spec2Model ----
(***************************************************************************)
(* Model of img-router: the base64 codec (src/base64.ts), the image        *)
(* resolver with its SSRF guard (src/unnamed/part_000, imported as         *)
(* image_resolver.ts), prepareImagesForUpstream (src/image_input.ts) and   *)
(* the ModelScope submit-then-poll handler (src/unnamed/part_001).         *)
(*                                                                         *)
(* Three specifications share the module:                                  *)
(*   SpecCodec   - encodeBase64 / decodeBase64 applied to bounded inputs   *)
(*   SpecResolve - one resolveImage call on a reference                    *)
(*   Spec        - one chat-completions request routed to ModelScope       *)
(***************************************************************************)
EXTENDS Integers, Sequences, FiniteSets, TLC

VARIABLES
    \* ---- codec (SpecCodec) ----
    cpc,            \* "idle" | "input" | "encoded" | "decoded"
    bytesIn,        \* the Uint8Array given to encodeBase64
    encoded,        \* the text returned by encodeBase64 (sequence of char codes)
    decoded,        \* the result of decodeBase64(encoded): [ok, bytes, error]
    \* ---- resolveImage (SpecResolve) ----
    rpc,            \* "idle" | "call" | "fetching" | "done"
    rUrl,           \* the reference passed to resolveImage
    rAllowPrivate,  \* options.allowPrivateNetwork
    rFetchCalls,    \* number of fetchFn invocations
    rOutcome,       \* "none" | "Resolved" | an error kind
    \* ---- one request handled by handleChatCompletions (Spec) ----
    pc,             \* position of the handler
    images,         \* images extracted from the last user message
    imageMode,      \* "passthrough" | "fetch_to_base64"
    base64Format,   \* "data_url" | "raw_base64"
    allowPrivate,   \* ALLOW_PRIVATE_IMAGE_FETCH
    isImageEditModel,
    configuredTaskType, \* TRUE iff MODELSCOPE_TASK_TYPE is non-empty after trim
    prepIdx,        \* loop index of prepareImagesForUpstream
    upstreamImages, \* the list handed to handleModelScope
    fetchCalls,     \* image fetches issued by resolveImage
    submitCalls,    \* POSTs to the provider
    statusQueries,  \* GETs of /tasks/{task_id}
    sleeps,         \* completed 5000 ms sleeps
    sleptMs,        \* total time slept
    i,              \* loop variable of the poll loop
    pollingAttempts,
    taskId,         \* job handle, "" when none
    submitResult,   \* how the submission settled, "none" before
    lastStatus,     \* how the current poll attempt was decided: "none", "non2xx",
                    \* the task_status of its payload (checkData.task_status), or
                    \* "first_non2xx" while the retry without the header is awaited
    lastPayload,    \* submitData on the sync fast path, checkData in the poll loop
    non2xxHistory,  \* "none" | "all" | "some": decided attempts that ended non-2xx
    outcome,        \* "none" | "Success" | an error kind
    errDetail,      \* payload carried by the error, or NoPayload
    result,         \* extracted image references rendered to the caller
    warned,         \* diagnostics emitted by warn() in the SUCCEED branch
    apiCallEnds,    \* logApiCallEnd reports
    answered,       \* poll attempts whose deciding response the provider has delivered
    \* ---- isPrivateIp on a host (SpecGuard) ----
    gpc,            \* "idle" | "call" | "done"
    gHost,          \* the host: its text and the parts it was written from
    gResult,        \* the value returned by isPrivateIp
    \* ---- resolveImage on concrete content (SpecImage, SpecPrepare) ----
    ipc,            \* "idle" | "call" | "fetching" | "error_body" | "reading" |
                    \* "cancelling" | "done"
    iRef,           \* the reference passed to resolveImage
    iMaxBytes,      \* options.maxBytes
    iAllowPrivate,  \* options.allowPrivateNetwork
    iFetchCalls,    \* number of fetchFn invocations
    iResp,          \* the response fetchFn resolved with
    iReaderObtained,\* resp.body.getReader() was called
    iReads,         \* number of reader.read() calls
    iChunks,        \* chunks kept by readResponseBytesWithLimit
    iTotal,         \* total of readResponseBytesWithLimit
    iOutcome,       \* "none" | "Resolved" | an error kind
    iImage,         \* the ResolvedImage returned
    iLockHeld,      \* the reader's lock on resp.body is held
    iCancels,       \* reader.cancel() calls
    iTimerArmed,    \* the setTimeout of resolveImage is pending
    iAborted,       \* the timer has expired: controller.abort() was called
    \* ---- request body parsing and prompt extraction (SpecChat) ----
    chpc,           \* "idle" | "parse" | "parsed" | "done"
    chBody,         \* the messages of the JSON payload as sent
    chFiles,        \* the file entries of the multipart form, in upload order
    chParsed,       \* the ParseBodyResult (or the error thrown)
    chExtract,      \* what extractLastUserPromptAndImages returned
    \* ---- two requests handled concurrently (SpecConcurrent) ----
    con,            \* per request: the position and locals of its handler
    conTaskType,    \* MODELSCOPE_TASK_TYPE is non-empty (process-wide, read-only)
    \* ---- prepareImagesForUpstream on concrete content (SpecPrepare) ----
    ppc,            \* "idle" | "loop" | "resolving" | "done"
    pUrls,          \* imageUrls
    pMode,          \* options.mode
    pFormat,        \* options.base64Format
    pIdx,           \* index of the reference being processed
    pOut,           \* out
    pResolved,      \* the ResolvedImage of each reference resolved so far
    pFetched,       \* the references fetchFn was invoked for, in order
    pOutcome        \* "none" | "Returned" | an error kind

codecVars   == <<cpc, bytesIn, encoded, decoded>>
resolveVars == <<rpc, rUrl, rAllowPrivate, rFetchCalls, rOutcome>>
reqVars     == <<pc, images, imageMode, base64Format, allowPrivate, isImageEditModel,
                 configuredTaskType, prepIdx, upstreamImages, fetchCalls, submitCalls,
                 statusQueries, sleeps, sleptMs, i, pollingAttempts, taskId, submitResult,
                 lastStatus, lastPayload, non2xxHistory, outcome, errDetail, result, warned, apiCallEnds,
                 answered>>
guardVars   == <<gpc, gHost, gResult>>
imgVars     == <<ipc, iRef, iMaxBytes, iAllowPrivate, iFetchCalls, iResp, iReaderObtained,
                 iReads, iChunks, iTotal, iOutcome, iImage, iLockHeld, iCancels,
                 iTimerArmed, iAborted>>
prepVars    == <<ppc, pUrls, pMode, pFormat, pIdx, pOut, pResolved, pFetched, pOutcome>>
chatVars    == <<chpc, chBody, chFiles, chParsed, chExtract>>
conVars     == <<con, conTaskType>>
vars        == <<codecVars, resolveVars, reqVars, guardVars, imgVars, prepVars, chatVars,
                 conVars>>

(***************************************************************************)
(* Bounds                                                                  *)
(***************************************************************************)
MaxBytesLen == 3
ByteSamples == {0, 1, 63, 77, 128, 255}
MaxTextLen  == 6

(***************************************************************************)
(* src/base64.ts                                                           *)
(***************************************************************************)
RECURSIVE Pow2(_)
Pow2(n) == IF n = 0 THEN 1 ELSE 2 * Pow2(n - 1)

\* JavaScript shifts and masks on non-negative 32-bit values
Shl(n, k)  == n * Pow2(k)
Shr(n, k)  == n \div Pow2(k)
And63(n)   == n % 64
And255(n)  == n % 256

\* a | b on non-negative integers
RECURSIVE BitOr(_, _)
BitOr(a, b) ==
    IF a = 0 THEN b
    ELSE IF b = 0 THEN a
    ELSE (IF (a % 2 = 1) \/ (b % 2 = 1) THEN 1 ELSE 0) + 2 * BitOr(a \div 2, b \div 2)

EqualsCode == 61

\* BASE64_ALPHABET.charCodeAt(idx), idx in 0..63
BASE64_ALPHABET(idx) ==
    IF idx < 26 THEN 65 + idx
    ELSE IF idx < 52 THEN 97 + (idx - 26)
    ELSE IF idx < 62 THEN 48 + (idx - 52)
    ELSE IF idx = 62 THEN 43
    ELSE 47

\* value read from a typed array outside its range
Undefined == 0 - 99

\* BASE64_LOOKUP[c]
BASE64_LOOKUP(c) ==
    IF c \notin 0..255 THEN Undefined
    ELSE IF c = 45 THEN 62
    ELSE IF c = 95 THEN 63
    ELSE IF \E idx \in 0..63 : BASE64_ALPHABET(idx) = c
         THEN CHOOSE idx \in 0..63 : BASE64_ALPHABET(idx) = c
         ELSE 0 - 1

\* the full 3-byte groups of encodeBase64's for loop, from index k (1-based)
RECURSIVE EncodeGroups(_, _)
EncodeGroups(bytes, k) ==
    IF k + 2 <= Len(bytes)
    THEN LET n == BitOr(BitOr(Shl(bytes[k], 16), Shl(bytes[k + 1], 8)), bytes[k + 2])
         IN  << BASE64_ALPHABET(And63(Shr(n, 18))),
                BASE64_ALPHABET(And63(Shr(n, 12))),
                BASE64_ALPHABET(And63(Shr(n, 6))),
                BASE64_ALPHABET(And63(n)) >> \o EncodeGroups(bytes, k + 3)
    ELSE <<>>

\* the 1 or 2 trailing bytes; lowShift is the shift of (n & 3) in the
\* one-byte case
EncodeTailWith(bytes, lowShift) ==
    LET full   == 3 * (Len(bytes) \div 3)
        remain == Len(bytes) - full
    IN  IF remain = 1
        THEN LET n == bytes[full + 1]
             IN  << BASE64_ALPHABET(And63(Shr(n, 2))),
                    BASE64_ALPHABET(Shl(n % 4, lowShift)),
                    EqualsCode, EqualsCode >>
        ELSE IF remain = 2
        THEN LET n == BitOr(Shl(bytes[full + 1], 8), bytes[full + 2])
             IN  << BASE64_ALPHABET(And63(Shr(n, 10))),
                    BASE64_ALPHABET(And63(Shr(n, 4))),
                    BASE64_ALPHABET(Shl(n % 16, 2)),
                    EqualsCode >>
        ELSE <<>>

EncodeTail_WrongShift(bytes) == EncodeTailWith(bytes, 2)

EncodeTail(bytes) == EncodeTailWith(bytes, 4)

encodeBase64_NoTail(bytes) == EncodeGroups(bytes, 1)

encodeBase64(bytes) ==
    IF Len(bytes) = 0 THEN <<>>
    ELSE EncodeGroups(bytes, 1) \o EncodeTail(bytes)

\* /\s/ : the white-space characters that can occur in the modelled inputs
IsWhitespace(c) == c \in {9, 10, 11, 12, 13, 32}

RECURSIVE StripWhitespace(_)
StripWhitespace(s) ==
    IF s = <<>> THEN <<>>
    ELSE IF IsWhitespace(Head(s)) THEN StripWhitespace(Tail(s))
    ELSE <<Head(s)>> \o StripWhitespace(Tail(s))

RECURSIVE Repeat(_, _)
Repeat(c, n) == IF n <= 0 THEN <<>> ELSE <<c>> \o Repeat(c, n - 1)

EndsWithCodes(s, suffix) ==
    /\ Len(s) >= Len(suffix)
    /\ SubSeq(s, Len(s) - Len(suffix) + 1, Len(s)) = suffix

\* ToInt32 of a lookup result used as a shift / mask operand
ToInt32(v) == IF v = Undefined THEN 0 ELSE v

\* the loop of decodeBase64 from group start k (1-based); returns the bytes
\* written in order, or ok = FALSE when a group is rejected
RECURSIVE DecodeGroups(_, _)
DecodeGroups(padded, k) ==
    IF k > Len(padded) THEN [ok |-> TRUE, bytes |-> <<>>]
    ELSE
      LET c0 == padded[k]
          c1 == padded[k + 1]
          c2 == padded[k + 2]
          c3 == padded[k + 3]
          v0 == BASE64_LOOKUP(c0)
          v1 == BASE64_LOOKUP(c1)
          v2 == IF c2 = EqualsCode THEN 0 - 2 ELSE BASE64_LOOKUP(c2)
          v3 == IF c3 = EqualsCode THEN 0 - 2 ELSE BASE64_LOOKUP(c3)
          \* undefined < 0 is false; undefined === -1 is false
          bad == \/ (v0 # Undefined /\ v0 < 0)
                 \/ (v1 # Undefined /\ v1 < 0)
                 \/ v2 = 0 - 1
                 \/ v3 = 0 - 1
          n  == BitOr(BitOr(BitOr(Shl(ToInt32(v0), 18), Shl(ToInt32(v1), 12)),
                            Shl(And63(ToInt32(v2)), 6)),
                      And63(ToInt32(v3)))
          b0 == <<And255(Shr(n, 16))>>
          b1 == IF v2 # 0 - 2 THEN <<And255(Shr(n, 8))>> ELSE <<>>
          b2 == IF v3 # 0 - 2 THEN <<And255(n)>> ELSE <<>>
      IN  IF bad THEN [ok |-> FALSE, bytes |-> <<>>]
          ELSE LET rest == DecodeGroups(padded, k + 4)
               IN  IF rest.ok THEN [ok |-> TRUE, bytes |-> b0 \o b1 \o b2 \o rest.bytes]
                   ELSE rest

\* out is a Uint8Array of outLen: writes beyond outLen are dropped, unwritten
\* slots stay 0
FitToLength(bytes, outLen) ==
    [k \in 1..outLen |-> IF k <= Len(bytes) THEN bytes[k] ELSE 0]

decodeBase64(input) ==
    LET cleaned == StripWhitespace(input)
        mod     == Len(cleaned) % 4
        padded  == IF mod = 0 THEN cleaned ELSE cleaned \o Repeat(EqualsCode, 4 - mod)
        len     == Len(padded)
        padding == IF EndsWithCodes(padded, <<EqualsCode, EqualsCode>>) THEN 2
                   ELSE IF EndsWithCodes(padded, <<EqualsCode>>) THEN 1 ELSE 0
        outLen  == (len \div 4) * 3 - padding
        groups  == DecodeGroups(padded, 1)
    IN  IF Len(cleaned) = 0 THEN [ok |-> TRUE, bytes |-> <<>>, error |-> "none"]
        ELSE IF len % 4 # 0 THEN [ok |-> FALSE, bytes |-> <<>>, error |-> "InvalidLength"]
        ELSE IF ~groups.ok THEN [ok |-> FALSE, bytes |-> <<>>, error |-> "InvalidCharacter"]
        ELSE [ok |-> TRUE, bytes |-> FitToLength(groups.bytes, outLen), error |-> "none"]

(***************************************************************************)
(* Text as sequences of one-character strings                              *)
(***************************************************************************)
UpperLetters == <<"A","B","C","D","E","F","G","H","I","J","K","L","M",
                  "N","O","P","Q","R","S","T","U","V","W","X","Y","Z">>
LowerLetters == <<"a","b","c","d","e","f","g","h","i","j","k","l","m",
                  "n","o","p","q","r","s","t","u","v","w","x","y","z">>
DigitChars   == <<"0","1","2","3","4","5","6","7","8","9">>

LowerChar(c) ==
    IF \E k \in 1..26 : UpperLetters[k] = c
    THEN LowerLetters[CHOOSE k \in 1..26 : UpperLetters[k] = c]
    ELSE c

toLowerCase(s) == [k \in 1..Len(s) |-> LowerChar(s[k])]

startsWith(s, p) == Len(s) >= Len(p) /\ SubSeq(s, 1, Len(p)) = p
endsWith(s, p)   == Len(s) >= Len(p) /\ SubSeq(s, Len(s) - Len(p) + 1, Len(s)) = p
includes(s, c)   == \E k \in 1..Len(s) : s[k] = c

\* s.split(sep) for a one-character separator
RECURSIVE split(_, _)
split(s, sep) ==
    IF ~includes(s, sep) THEN <<s>>
    ELSE LET k == CHOOSE j \in 1..Len(s) : s[j] = sep /\ \A m \in 1..(j - 1) : s[m] # sep
         IN  <<SubSeq(s, 1, k - 1)>> \o split(SubSeq(s, k + 1, Len(s)), sep)

IsDigit(c)  == \E k \in 1..10 : DigitChars[k] = c
DigitVal(c) == (CHOOSE k \in 1..10 : DigitChars[k] = c) - 1

\* Number.parseInt(p, 10) of a string of 1..3 digits
RECURSIVE ParseDigits(_, _)
ParseDigits(p, acc) ==
    IF p = <<>> THEN acc ELSE ParseDigits(Tail(p), acc * 10 + DigitVal(Head(p)))

\* the decimal text of n, 0 <= n <= 999, as String(n) writes it
DecimalText(n) ==
    IF n < 10 THEN <<DigitChars[n + 1]>>
    ELSE IF n < 100 THEN <<DigitChars[(n \div 10) + 1], DigitChars[(n % 10) + 1]>>
    ELSE <<DigitChars[(n \div 100) + 1], DigitChars[((n \div 10) % 10) + 1],
           DigitChars[(n % 10) + 1]>>

(***************************************************************************)
(* src/unnamed/part_000 : the Network-Address Guard                        *)
(***************************************************************************)
\* /^\d{1,3}(\.\d{1,3}){3}$/.test(host)
isLikelyIpV4(host) ==
    LET parts == split(host, ".")
    IN  /\ Len(parts) = 4
        /\ \A k \in 1..4 : /\ Len(parts[k]) \in 1..3
                           /\ \A m \in 1..Len(parts[k]) : IsDigit(parts[k][m])

Null == <<"null">>

parseIpv4_NoRangeCheck(host) ==
    IF ~isLikelyIpV4(host) THEN Null
    ELSE [k \in 1..4 |-> ParseDigits(split(host, ".")[k], 0)]

parseIpv4(host) ==
    IF ~isLikelyIpV4(host) THEN Null
    ELSE LET parts == [k \in 1..4 |-> ParseDigits(split(host, ".")[k], 0)]
         IN  IF \E k \in 1..4 : parts[k] < 0 \/ parts[k] > 255 THEN Null ELSE parts

isPrivateIp(host) ==
    LET h      == toLowerCase(host)
        ipv4   == parseIpv4(h)
        noZone == split(h, "%")[1]
    IN  IF h = <<"l","o","c","a","l","h","o","s","t">>
           \/ endsWith(h, <<".","l","o","c","a","l","h","o","s","t">>) THEN TRUE
        ELSE IF h = <<"0",".","0",".","0",".","0">> THEN TRUE
        ELSE IF h = <<":",":","1">> THEN TRUE
        ELSE IF ipv4 # Null
        THEN LET a == ipv4[1]
                 b == ipv4[2]
             IN  \/ a = 127
                 \/ a = 10
                 \/ (a = 192 /\ b = 168)
                 \/ (a = 172 /\ b >= 16 /\ b <= 31)
                 \/ (a = 169 /\ b = 254)
        ELSE IF includes(h, ":")
        THEN \/ noZone = <<":",":","1">>
             \/ startsWith(noZone, <<"f","c">>)
             \/ startsWith(noZone, <<"f","d">>)
             \/ startsWith(noZone, <<"f","e","8","0",":">>)
             \/ startsWith(noZone, <<"f","e","8","0",":",":">>)
        ELSE FALSE

(***************************************************************************)
(* Image references                                                        *)
(*   form   "empty" : "" or blank text                                     *)
(*          "data"  : text starting with "data:"; inline says which check  *)
(*                    of the inline path it fails, or "ok"                 *)
(*          "url"   : text that new URL() accepts; host is the address the *)
(*                    URL names, hostKind its syntax                       *)
(*          "text"  : any other non-blank text (new URL() throws)          *)
(***************************************************************************)
NoHost == <<>>

UrlRef(scheme, hostKind, host) ==
    [form |-> "url", scheme |-> scheme, hostKind |-> hostKind, host |-> host, inline |-> "none"]
DataRef(inline) ==
    [form |-> "data", scheme |-> "data", hostKind |-> "none", host |-> NoHost, inline |-> inline]
EmptyRef ==
    [form |-> "empty", scheme |-> "none", hostKind |-> "none", host |-> NoHost, inline |-> "none"]
TextRef ==
    [form |-> "text", scheme |-> "none", hostKind |-> "none", host |-> NoHost, inline |-> "none"]

\* new URL(url): protocol and hostname of the parsed URL.  The URL parser
\* serialises an IPv6 host between square brackets.
ParseUrl(ref) ==
    IF ref.form # "url" THEN [ok |-> FALSE, protocol |-> "none", hostname |-> NoHost]
    ELSE [ok       |-> TRUE,
          protocol |-> ref.scheme,
          hostname |-> IF ref.hostKind = "ipv6"
                       THEN <<"[">> \o ref.host \o <<"]">>
                       ELSE ref.host]

assertAllowedRemoteUrl(u, allowPrivateNetwork) ==
    IF u.protocol # "http" /\ u.protocol # "https" THEN "UnsupportedScheme"
    ELSE IF ~allowPrivateNetwork /\ isPrivateIp(u.hostname) THEN "BlockedBySsrfPolicy"
    ELSE "ok"

\* parseDataUrlToBytes: the first failing check, in the order of the code
parseDataUrlToBytes(ref) ==
    IF ref.inline = "nocomma" THEN "InvalidReference"
    ELSE IF ref.inline = "notbase64" THEN "UnsupportedEncoding"
    ELSE IF ref.inline = "badmime" THEN "InvalidMediaType"
    ELSE IF ref.inline = "badpayload" THEN "InvalidCharacter"
    ELSE "ok"

\* resolveImage up to its first network await: an error kind, "Resolved"
\* (inline path returned) or "Fetch" (fetchFn is invoked)
ResolveSync(ref, allowPrivateNetwork) ==
    IF ref.form = "empty" THEN "InvalidReference"
    ELSE IF ref.form = "data"
    THEN LET parsed == parseDataUrlToBytes(ref)
         IN  IF parsed # "ok" THEN parsed
             ELSE IF ref.inline = "toolarge" THEN "TooLarge"
             ELSE "Resolved"
    ELSE LET u == ParseUrl(ref)
         IN  IF ~u.ok THEN "InvalidReference"
             ELSE LET allowed == assertAllowedRemoteUrl(u, allowPrivateNetwork)
                  IN  IF allowed # "ok" THEN allowed ELSE "Fetch"

\* what the transport can answer to the image GET
FetchResponses == {"abort", "neterr", "non2xx", "badct", "toolarge", "ok"}

\* resolveImage after fetchFn settles
ResolveAfterFetch(resp) ==
    IF resp = "abort" THEN "Timeout"
    ELSE IF resp = "neterr" THEN "TransportError"
    ELSE IF resp = "non2xx" THEN "UpstreamError"
    ELSE IF resp = "badct" THEN "InvalidMediaType"
    ELSE IF resp = "toolarge" THEN "TooLarge"
    ELSE "Resolved"

(***************************************************************************)
(* Sample references                                                       *)
(***************************************************************************)
SampleOctetsA == {8, 10, 127, 169, 172, 192}
SampleOctetsB == {1, 15, 16, 31, 32, 168, 254}

V4Host(a, b) == DecimalText(a) \o <<".">> \o DecimalText(b) \o <<".","1",".","5">>

NameHosts == { <<"l","o","c","a","l","h","o","s","t">>,
               <<"a",".","l","o","c","a","l","h","o","s","t">>,
               <<"e","x","a","m","p","l","e",".","c","o","m">>,
               <<"f","d",".","i","o">> }

V6Hosts == { <<":",":","1">>,
             <<"f","d","0","0",":",":","1">>,
             <<"f","c","0","0",":",":","1">>,
             <<"f","e","8","0",":",":","1">>,
             <<"2","0","0","1",":","d","b","8",":",":","1">> }

Schemes == {"http", "https", "ftp"}

InlineClasses == {"ok", "nocomma", "notbase64", "badmime", "badpayload", "toolarge"}

ResolveRefs ==
    {UrlRef(sc, "ipv4", V4Host(a, b)) : sc \in Schemes, a \in SampleOctetsA, b \in SampleOctetsB}
    \cup {UrlRef(sc, "name", h) : sc \in Schemes, h \in NameHosts}
    \cup {UrlRef(sc, "ipv6", h) : sc \in Schemes, h \in V6Hosts}
    \cup {DataRef(c) : c \in InlineClasses}
    \cup {EmptyRef, TextRef}

(***************************************************************************)
(* src/unnamed/part_001 : provider payloads and extractImages              *)
(***************************************************************************)
\* a field that is absent / not a string
NoStr == "<undefined>"

ImgUrlStr   == "https://cdn.example/a.png"
DataUrlStr  == "data:image/png;base64,QQ=="
B64Str      == "QQ=="
BlankStr    == " "
EmptyStr    == ""

\* v.startsWith("data:") and v.trim() !== "" over the modelled strings
StartsWithData(v) == v = DataUrlStr
IsBlank(v)        == v \in {EmptyStr, BlankStr}
Truthy(v)         == v # NoStr /\ v # EmptyStr

\* payload elements: undefined, a string, or an object with url / b64_json / base64
NilEl        == [k |-> "nil", s |-> NoStr, url |-> NoStr, b64_json |-> NoStr, base64 |-> NoStr]
StrEl(v)     == [k |-> "str", s |-> v, url |-> NoStr, b64_json |-> NoStr, base64 |-> NoStr]
ObjEl(u, b, c) == [k |-> "obj", s |-> NoStr, url |-> u, b64_json |-> b, base64 |-> c]

pushAny(v) ==
    IF v.k = "nil" THEN <<>>
    ELSE IF v.k = "str"
    THEN IF ~Truthy(v.s) THEN <<>>
         ELSE IF StartsWithData(v.s) THEN <<[url |-> NoStr, b64_json |-> v.s]>>
         ELSE <<[url |-> v.s, b64_json |-> NoStr]>>
    ELSE LET url == v.url
             b64 == IF v.b64_json # NoStr THEN v.b64_json ELSE v.base64
         IN  IF Truthy(url) \/ Truthy(b64) THEN <<[url |-> url, b64_json |-> b64]>> ELSE <<>>

RECURSIVE tryArray(_)
tryArray(arr) == IF arr = <<>> THEN <<>> ELSE pushAny(Head(arr)) \o tryArray(Tail(arr))

KeepImage(x) == \/ (x.url # NoStr /\ ~IsBlank(x.url))
                \/ (x.b64_json # NoStr /\ ~IsBlank(x.b64_json))

\* an absent array field is modelled as the empty array (tryArray pushes
\* nothing for either); out_* are the fields of payload.output
extractImages(payload) ==
    SelectSeq(   tryArray(payload.output_images)
              \o tryArray(payload.out_output_images)
              \o tryArray(payload.out_images)
              \o tryArray(payload.output_images)
              \o tryArray(payload.images)
              \o tryArray(payload.data)
              \o pushAny(payload.output_image)
              \o pushAny(payload.out_output_image)
              \o pushAny(payload.out_image),
              KeepImage)

EmptyBody ==
    [task_id |-> EmptyStr, task_status |-> "missing",
     output_images |-> <<>>, out_output_images |-> <<>>, out_images |-> <<>>,
     images |-> <<>>, data |-> <<>>,
     output_image |-> NilEl, out_output_image |-> NilEl, out_image |-> NilEl]

NoPayload == [EmptyBody EXCEPT !.task_status = "<no payload>"]

Bodies ==
    { EmptyBody,
      [EmptyBody EXCEPT !.output_images = <<StrEl(ImgUrlStr)>>],
      [EmptyBody EXCEPT !.images = <<ObjEl(ImgUrlStr, NoStr, NoStr), StrEl(DataUrlStr)>>],
      [EmptyBody EXCEPT !.data = <<ObjEl(NoStr, NoStr, B64Str)>>, !.out_image = StrEl(BlankStr)],
      [EmptyBody EXCEPT !.out_output_image = StrEl(BlankStr)] }

\* bodies used for status payloads: one without and one with an image
StatusBodies == {EmptyBody, [EmptyBody EXCEPT !.images = <<ObjEl(ImgUrlStr, NoStr, NoStr)>>]}

TerminalStatuses    == {"SUCCEED", "FAILED"}
NonTerminalStatuses == {"PENDING", "SUCCEEDED", "missing"}
TaskIdSamples       == {EmptyStr, "t1"}

StatusPayloads ==
    {[b EXCEPT !.task_status = st] : b \in StatusBodies, st \in TerminalStatuses}
    \cup {[EmptyBody EXCEPT !.task_status = st] : st \in NonTerminalStatuses}
SubmitPayloads == {[b EXCEPT !.task_id = t] : b \in Bodies, t \in TaskIdSamples}

\* what the provider can answer to the submission or to a status query:
\* the fetch throws (abort by the time budget, transport error), a non-2xx
\* response, a 2xx response whose body is not JSON, a 2xx JSON payload
Reply(kind, payload) == [kind |-> kind, payload |-> payload]
FailureReplies == {Reply(k, NoPayload) : k \in {"abort", "neterr", "non2xx", "nonjson"}}
SubmitReplies  == FailureReplies \cup {Reply("json", p) : p \in SubmitPayloads}
StatusReplies  == FailureReplies \cup {Reply("json", p) : p \in StatusPayloads}

ThrownKind(kind) ==
    IF kind = "abort" THEN "Timeout"
    ELSE IF kind = "neterr" THEN "TransportError"
    ELSE "MalformedResponse"

(***************************************************************************)
(* Idle values of the parts a specification does not exercise              *)
(***************************************************************************)
NoDecode == [ok |-> FALSE, bytes |-> <<>>, error |-> "not called"]

CodecIdle ==
    /\ cpc = "idle" /\ bytesIn = <<>> /\ encoded = <<>> /\ decoded = NoDecode

ResolveIdle ==
    /\ rpc = "idle" /\ rUrl = EmptyRef /\ rAllowPrivate = FALSE
    /\ rFetchCalls = 0 /\ rOutcome = "none"

ReqCounters ==
    /\ prepIdx = 1 /\ upstreamImages = <<>>
    /\ fetchCalls = 0 /\ submitCalls = 0 /\ statusQueries = 0
    /\ sleeps = 0 /\ sleptMs = 0 /\ i = 0 /\ pollingAttempts = 0
    /\ taskId = EmptyStr /\ submitResult = "none"
    /\ lastStatus = "none" /\ lastPayload = NoPayload /\ non2xxHistory = "none"
    /\ outcome = "none" /\ errDetail = NoPayload /\ result = <<>>
    /\ warned = 0 /\ apiCallEnds = 0 /\ answered = 0

NoGuardHost == [kind |-> "none", text |-> <<>>, octets |-> <<>>, base |-> <<>>]

GuardIdle ==
    /\ gpc = "idle" /\ gHost = NoGuardHost /\ gResult = FALSE

NoResp  == [kind |-> "none"]
NoImage == [url |-> [ref |-> EmptyRef, text |-> <<>>], mime |-> <<>>, bytes |-> <<>>, base64 |-> <<>>,
            dataUrl |-> <<>>, size |-> 0 - 1]

\* the locals of resolveImage before it runs
ImgFresh ==
    /\ iFetchCalls = 0 /\ iResp = NoResp /\ iReaderObtained = FALSE /\ iReads = 0
    /\ iChunks = <<>> /\ iTotal = 0 /\ iOutcome = "none" /\ iImage = NoImage
    /\ iLockHeld = FALSE /\ iCancels = 0 /\ iTimerArmed = FALSE /\ iAborted = FALSE

ImgIdle ==
    /\ ipc = "idle" /\ iRef = [ref |-> EmptyRef, text |-> <<>>] /\ iMaxBytes = 0 /\ iAllowPrivate = FALSE
    /\ ImgFresh

PrepIdle ==
    /\ ppc = "idle" /\ pUrls = <<>> /\ pMode = "passthrough" /\ pFormat = "data_url"
    /\ pIdx = 1 /\ pOut = <<>> /\ pResolved = <<>> /\ pFetched = <<>> /\ pOutcome = "none"

NoParsed  == [err |-> "not called", body |-> <<>>, injectedImageCount |-> 0, warnings |-> 0]
NoExtract == [prompt |-> <<>>, images |-> <<>>]

ChatIdle ==
    /\ chpc = "idle" /\ chBody = <<>> /\ chFiles = <<>>
    /\ chParsed = NoParsed /\ chExtract = NoExtract

ConIdle == con = <<>> /\ conTaskType = FALSE

ReqIdle ==
    /\ pc = "idle" /\ images = <<>> /\ imageMode = "passthrough"
    /\ base64Format = "data_url" /\ allowPrivate = FALSE
    /\ isImageEditModel = FALSE /\ configuredTaskType = FALSE
    /\ ReqCounters

(***************************************************************************)
(* SpecCodec : encodeBase64 then decodeBase64 on a byte sequence           *)
(***************************************************************************)
ByteSeqs == UNION {[1..n -> ByteSamples] : n \in 0..MaxBytesLen}

InitCodec ==
    /\ cpc = "input" /\ bytesIn \in ByteSeqs /\ encoded = <<>> /\ decoded = NoDecode
    /\ ResolveIdle /\ ReqIdle /\ GuardIdle /\ ImgIdle /\ PrepIdle /\ ChatIdle /\ ConIdle

Encode ==
    /\ cpc = "input"
    /\ encoded' = encodeBase64(bytesIn)
    /\ cpc' = "encoded"
    /\ UNCHANGED <<bytesIn, decoded, resolveVars, reqVars, guardVars, imgVars, prepVars, chatVars, conVars>>

Decode ==
    /\ cpc = "encoded"
    /\ decoded' = decodeBase64(encoded)
    /\ cpc' = "decoded"
    /\ UNCHANGED <<bytesIn, encoded, resolveVars, reqVars, guardVars, imgVars, prepVars, chatVars, conVars>>

NextCodec == Encode \/ Decode

SpecCodec == InitCodec /\ [][NextCodec]_vars

(***************************************************************************)
(* SpecDecode : decodeBase64 on an arbitrary text                          *)
(***************************************************************************)
\* char codes of the sampled input: Q - = ! (outside the alphabet), a code
\* beyond the lookup table, and a space
TextSymbols == {81, 45, 61, 33, 256, 32}

Texts == UNION {[1..n -> TextSymbols] : n \in 0..MaxTextLen}

InitDecode ==
    /\ cpc = "text" /\ bytesIn = <<>> /\ encoded \in Texts /\ decoded = NoDecode
    /\ ResolveIdle /\ ReqIdle /\ GuardIdle /\ ImgIdle /\ PrepIdle /\ ChatIdle /\ ConIdle

DecodeText ==
    /\ cpc = "text"
    /\ decoded' = decodeBase64(encoded)
    /\ cpc' = "text_decoded"
    /\ UNCHANGED <<bytesIn, encoded, resolveVars, reqVars, guardVars, imgVars, prepVars, chatVars, conVars>>

NextDecode == DecodeText

SpecDecode == InitDecode /\ [][NextDecode]_vars

(***************************************************************************)
(* SpecResolve : one call of resolveImage(url, {allowPrivateNetwork})      *)
(***************************************************************************)
InitResolve ==
    /\ rpc = "call" /\ rUrl \in ResolveRefs /\ rAllowPrivate \in BOOLEAN
    /\ rFetchCalls = 0 /\ rOutcome = "none"
    /\ CodecIdle /\ ReqIdle /\ GuardIdle /\ ImgIdle /\ PrepIdle /\ ChatIdle /\ ConIdle

\* resolveImage from its entry to the fetchFn call or to its return / throw
ResolveCall ==
    /\ rpc = "call"
    /\ LET r == ResolveSync(rUrl, rAllowPrivate)
       IN  IF r = "Fetch"
           THEN /\ rFetchCalls' = rFetchCalls + 1
                /\ rpc' = "fetching"
                /\ rOutcome' = rOutcome
           ELSE /\ rOutcome' = r
                /\ rpc' = "done"
                /\ rFetchCalls' = rFetchCalls
    /\ UNCHANGED <<rUrl, rAllowPrivate, codecVars, reqVars, guardVars, imgVars, prepVars, chatVars, conVars>>

\* the transport settles; the response is validated and read
ResolveFetchSettles ==
    /\ rpc = "fetching"
    /\ \E resp \in FetchResponses : rOutcome' = ResolveAfterFetch(resp)
    /\ rpc' = "done"
    /\ UNCHANGED <<rUrl, rAllowPrivate, rFetchCalls, codecVars, reqVars, guardVars, imgVars, prepVars, chatVars, conVars>>

NextResolve == ResolveCall \/ ResolveFetchSettles

SpecResolve == InitResolve /\ [][NextResolve]_vars

(***************************************************************************)
(* SpecGuard : isPrivateIp applied to a host                               *)
(***************************************************************************)
\* a dotted-decimal host written from four numbers
V4Text(o) ==
    DecimalText(o[1]) \o <<".">> \o DecimalText(o[2]) \o <<".">>
        \o DecimalText(o[3]) \o <<".">> \o DecimalText(o[4])

V4GuardHost(o) == [kind |-> "v4", text |-> V4Text(o), octets |-> o, base |-> V4Text(o)]

\* a host name or an IPv6 literal; base is the text before a '%zone' suffix
TextGuardHost(kind, base, zone) ==
    [kind |-> kind, text |-> base \o zone, octets |-> <<>>, base |-> base]

GuardOctetsA == SampleOctetsA \cup {0, 300}
GuardOctetsB == SampleOctetsB \cup {0}
GuardOctetsD == {0, 5, 256}

GuardNames == NameHosts \cup
    { <<"L","O","C","A","L","H","O","S","T">>,
      <<"a",".","L","o","c","a","l","H","o","s","t">>,
      <<"n","o","t","l","o","c","a","l","h","o","s","t">>,
      <<"l","o","c","a","l","h","o","s","t",".","e","x","a","m","p","l","e">>,
      <<"f","c","d","n",".","n","e","t">>,
      <<"1","0",".","1">>,
      <<"1","2","7",".","0",".","0",".","1",".","n","i","p",".","i","o">> }

GuardV6 == V6Hosts \cup
    { <<"F","E","8","0",":",":","A">>,
      <<"F","D","1","2",":",":","1">>,
      <<"f","e","8","0",":","1",":",":","2">>,
      <<"f","e","8",":",":","1">>,
      <<"f","e","c","0",":",":","1">>,
      <<"[",":",":","1","]">>,
      <<"[","f","d","0","0",":",":","1","]">>,
      <<":",":","f","f","f","f",":","1","0",".","0",".","0",".","1">>,
      <<":",":">> }

GuardZones == {<<>>, <<"%","e","t","h","0">>}

GuardHosts ==
    {V4GuardHost(<<a, b, 0, d>>) : a \in GuardOctetsA, b \in GuardOctetsB, d \in GuardOctetsD}
    \cup {TextGuardHost("name", h, <<>>) : h \in GuardNames}
    \cup {TextGuardHost("v6", h, z) : h \in GuardV6, z \in GuardZones}

InitGuard ==
    /\ gpc = "call" /\ gHost \in GuardHosts /\ gResult = FALSE
    /\ CodecIdle /\ ResolveIdle /\ ReqIdle /\ ImgIdle /\ PrepIdle /\ ChatIdle /\ ConIdle

GuardCall ==
    /\ gpc = "call"
    /\ gResult' = isPrivateIp(gHost.text)
    /\ gpc' = "done"
    /\ UNCHANGED <<gHost, codecVars, resolveVars, reqVars, imgVars, prepVars, chatVars, conVars>>

NextGuard == GuardCall

SpecGuard == InitGuard /\ [][NextGuard]_vars

(***************************************************************************)
(* Spec : one request through handleChatCompletions -> handleModelScope    *)
(***************************************************************************)
maxAttempts    == 60
PollIntervalMs == 5000

PrivateV4Url  == UrlRef("http", "ipv4", V4Host(192, 168))
PublicUrl     == UrlRef("https", "name", <<"e","x","a","m","p","l","e",".","c","o","m">>)
LoopbackV6Url == UrlRef("http", "ipv6", <<":",":","1">>)
FtpUrl        == UrlRef("ftp", "name", <<"e","x","a","m","p","l","e",".","c","o","m">>)

\* extractLastUserPromptAndImages keeps only non-blank image urls
ReqRefs == {PrivateV4Url, PublicUrl, LoopbackV6Url, FtpUrl, DataRef("ok"), DataRef("toolarge")}

ImageLists ==
    {<<>>} \cup {<<r>> : r \in ReqRefs}
           \cup {<<PublicUrl, PrivateV4Url>>, <<DataRef("ok"), PublicUrl>>}

Scenario(imgs, mode, fmt, allow, edit, taskType) ==
    [images |-> imgs, imageMode |-> mode, base64Format |-> fmt, allowPrivate |-> allow,
     isImageEditModel |-> edit, configuredTaskType |-> taskType]

\* the requests and configurations explored: every image list under every
\* image configuration with MODELSCOPE_TASK_TYPE empty, and two requests with
\* the task-type header configured
Scenarios ==
    { Scenario(imgs, mode, fmt, allow, edit, FALSE) :
        imgs \in ImageLists, mode \in {"passthrough", "fetch_to_base64"},
        fmt \in {"data_url", "raw_base64"}, allow \in BOOLEAN, edit \in BOOLEAN }
    \cup { Scenario(<<>>, "passthrough", "data_url", FALSE, FALSE, TRUE),
           Scenario(<<PublicUrl>>, "fetch_to_base64", "data_url", FALSE, TRUE, TRUE) }

Init ==
    /\ pc = "prepare"
    /\ \E sc \in Scenarios :
         /\ images = sc.images
         /\ imageMode = sc.imageMode
         /\ base64Format = sc.base64Format
         /\ allowPrivate = sc.allowPrivate
         /\ isImageEditModel = sc.isImageEditModel
         /\ configuredTaskType = sc.configuredTaskType
    /\ ReqCounters
    /\ CodecIdle /\ ResolveIdle /\ GuardIdle /\ ImgIdle /\ PrepIdle /\ ChatIdle /\ ConIdle

config == <<images, imageMode, base64Format, allowPrivate, isImageEditModel,
            configuredTaskType>>

\* ---- src/image_input.ts : prepareImagesForUpstream -----------------------

\* what is pushed for a resolved image: resolved.dataUrl is a well-formed
\* base64 image data URL of at most maxBytes; resolved.base64 is bare text
Forwarded(fmt) == IF fmt = "raw_base64" THEN TextRef ELSE DataRef("ok")

NonBlank(ref) == ref.form # "empty"

\* the for loop from index idx with accumulator out, run until resolveImage
\* has to wait for the transport, throws, or the loop ends
RECURSIVE PrepLoop(_, _, _, _, _)
PrepLoop(imgs, idx, out, allow, fmt) ==
    IF idx > Len(imgs) THEN [kind |-> "done", idx |-> idx, out |-> out, err |-> "none"]
    ELSE IF ~NonBlank(imgs[idx]) THEN PrepLoop(imgs, idx + 1, out, allow, fmt)
    ELSE LET r == ResolveSync(imgs[idx], allow)
         IN  IF r = "Fetch" THEN [kind |-> "fetch", idx |-> idx, out |-> out, err |-> "none"]
             ELSE IF r = "Resolved"
             THEN PrepLoop(imgs, idx + 1, Append(out, Forwarded(fmt)), allow, fmt)
             ELSE [kind |-> "error", idx |-> idx, out |-> out, err |-> r]

\* an error leaves the handler; the catch block of handleChatCompletions turns
\* it into the 500 response.  reported: logApiCallEnd ran before the throw
Fail(kind, detail, reported) ==
    /\ pc' = "done"
    /\ outcome' = kind
    /\ errDetail' = detail
    /\ apiCallEnds' = apiCallEnds + (IF reported THEN 1 ELSE 0)

ApplyPrep(r) ==
    /\ prepIdx' = r.idx
    /\ upstreamImages' = r.out
    /\ IF r.kind = "fetch"
       THEN /\ fetchCalls' = fetchCalls + 1
            /\ pc' = "prep_fetching"
            /\ UNCHANGED <<outcome, errDetail, apiCallEnds>>
       ELSE IF r.kind = "done"
       THEN /\ pc' = "handle"
            /\ UNCHANGED <<fetchCalls, outcome, errDetail, apiCallEnds>>
       ELSE /\ Fail(r.err, NoPayload, FALSE)
            /\ UNCHANGED fetchCalls

PrepareImages ==
    /\ pc = "prepare"
    /\ IF Len(images) = 0
       THEN ApplyPrep([kind |-> "done", idx |-> 1, out |-> <<>>, err |-> "none"])
       ELSE IF imageMode = "passthrough"
       THEN ApplyPrep([kind |-> "done", idx |-> 1, out |-> SelectSeq(images, NonBlank),
                       err |-> "none"])
       ELSE ApplyPrep(PrepLoop(images, 1, <<>>, allowPrivate, base64Format))
    /\ UNCHANGED <<config, submitCalls, statusQueries, sleeps, sleptMs, i,
                   pollingAttempts, taskId, submitResult, lastStatus, lastPayload,
                   non2xxHistory, result, warned, answered, codecVars, resolveVars, guardVars, imgVars, prepVars, chatVars, conVars>>

PrepFetchSettles ==
    /\ pc = "prep_fetching"
    /\ \E resp \in FetchResponses :
         LET r == ResolveAfterFetch(resp)
         IN  IF r = "Resolved"
             THEN ApplyPrep(PrepLoop(images, prepIdx + 1,
                                     Append(upstreamImages, Forwarded(base64Format)),
                                     allowPrivate, base64Format))
             ELSE /\ Fail(r, NoPayload, FALSE)
                  /\ UNCHANGED <<prepIdx, upstreamImages, fetchCalls>>
    /\ UNCHANGED <<config, submitCalls, statusQueries, sleeps, sleptMs, i,
                   pollingAttempts, taskId, submitResult, lastStatus, lastPayload,
                   non2xxHistory, result, warned, answered, codecVars, resolveVars, guardVars, imgVars, prepVars, chatVars, conVars>>

\* ---- src/unnamed/part_001 : handleModelScope -----------------------------

SendSubmit ==
    /\ submitCalls' = submitCalls + 1
    /\ pc' = "submitting"
    /\ UNCHANGED <<outcome, errDetail, apiCallEnds>>

NoReferenceImage_Never(imgs) == FALSE

\* images.length === 0
NoReferenceImage(imgs) == Len(imgs) = 0

\* images[0]: undefined when the list is empty, rejected by resolveImage like ""
FirstImage(imgs) == IF Len(imgs) = 0 THEN EmptyRef ELSE imgs[1]

\* entry of handleModelScope up to its first network await
HandleModelScopeStart ==
    /\ pc = "handle"
    /\ IF isImageEditModel
       THEN IF NoReferenceImage(upstreamImages)
            THEN /\ Fail("MissingReferenceImage", NoPayload, FALSE)
                 /\ UNCHANGED <<fetchCalls, submitCalls>>
            ELSE LET r == ResolveSync(FirstImage(upstreamImages), allowPrivate)
                 IN  IF r = "Fetch"
                     THEN /\ fetchCalls' = fetchCalls + 1
                          /\ pc' = "edit_fetching"
                          /\ UNCHANGED <<submitCalls, outcome, errDetail, apiCallEnds>>
                     ELSE IF r = "Resolved"
                     THEN SendSubmit /\ UNCHANGED fetchCalls
                     ELSE /\ Fail(r, NoPayload, FALSE)
                          /\ UNCHANGED <<fetchCalls, submitCalls>>
       ELSE SendSubmit /\ UNCHANGED fetchCalls
    /\ UNCHANGED <<config, prepIdx, upstreamImages, statusQueries, sleeps,
                   sleptMs, i, pollingAttempts, taskId, submitResult, lastStatus,
                   lastPayload, non2xxHistory, result, warned, answered, codecVars,
                   resolveVars, guardVars, imgVars, prepVars, chatVars, conVars>>

EditFetchSettles ==
    /\ pc = "edit_fetching"
    /\ \E resp \in FetchResponses :
         LET r == ResolveAfterFetch(resp)
         IN  IF r = "Resolved"
             THEN SendSubmit
             ELSE Fail(r, NoPayload, FALSE) /\ UNCHANGED submitCalls
    /\ UNCHANGED <<config, prepIdx, upstreamImages, fetchCalls, statusQueries,
                   sleeps, sleptMs, i, pollingAttempts, taskId, submitResult, lastStatus,
                   lastPayload, non2xxHistory, result, warned, answered, codecVars,
                   resolveVars, guardVars, imgVars, prepVars, chatVars, conVars>>

Succeed(imageData) ==
    /\ pc' = "done"
    /\ outcome' = "Success"
    /\ result' = imageData
    /\ apiCallEnds' = apiCallEnds + 1
    /\ errDetail' = errDetail

FastPath_EmptyIsSuccess(submitData) == Succeed(extractImages(submitData))

\* the submission response carries no task_id
FastPath(submitData) ==
    LET imageData == extractImages(submitData)
    IN  IF Len(imageData) > 0
        THEN Succeed(imageData)
        ELSE Fail("UnexpectedResponse", NoPayload, FALSE) /\ result' = result

\* the submission settles: error, sync fast path or start of the poll loop
SubmitSettles ==
    /\ pc = "submitting"
    /\ \E resp \in SubmitReplies :
         IF resp.kind \in {"abort", "neterr", "nonjson"}
         THEN /\ Fail(ThrownKind(resp.kind), NoPayload, FALSE)
              /\ submitResult' = (IF resp.kind = "nonjson" THEN "nonjson" ELSE "thrown")
              /\ UNCHANGED <<taskId, lastPayload, result>>
         ELSE IF resp.kind = "non2xx"
         THEN /\ Fail("SubmitError", NoPayload, TRUE)
              /\ submitResult' = "non2xx"
              /\ UNCHANGED <<taskId, lastPayload, result>>
         ELSE /\ taskId' = resp.payload.task_id
              /\ IF ~Truthy(resp.payload.task_id)
                 THEN /\ submitResult' = "no_task_id"
                      /\ lastPayload' = resp.payload
                      /\ FastPath(resp.payload)
                 ELSE /\ submitResult' = "task_id"
                      /\ pc' = "poll_loop"
                      /\ UNCHANGED <<outcome, errDetail, apiCallEnds, result, lastPayload>>
    /\ UNCHANGED <<config, prepIdx, upstreamImages, fetchCalls, submitCalls,
                   statusQueries, sleeps, sleptMs, i, pollingAttempts, lastStatus,
                   non2xxHistory, warned, answered, codecVars, resolveVars, guardVars, imgVars, prepVars, chatVars, conVars>>

\* one iteration head: the loop test i < limit, the 5000 ms sleep, the attempt
\* count, the status query with the task-type header.  checkData of the
\* previous iteration is out of scope
PollSleepBody(limit, sleepFirst) ==
    /\ pc = "poll_loop"
    /\ i < limit
    /\ sleeps' = sleeps + (IF sleepFirst \/ i > 0 THEN 1 ELSE 0)
    /\ sleptMs' = sleptMs + (IF sleepFirst \/ i > 0 THEN PollIntervalMs ELSE 0)
    /\ pollingAttempts' = pollingAttempts + 1
    /\ statusQueries' = statusQueries + 1
    /\ lastStatus' = "none"
    /\ lastPayload' = NoPayload
    /\ pc' = "await_check"
    /\ UNCHANGED <<config, prepIdx, upstreamImages, fetchCalls, submitCalls,
                   i, taskId, submitResult, non2xxHistory, outcome, errDetail, result,
                   warned, apiCallEnds, answered, codecVars, resolveVars, guardVars, imgVars, prepVars, chatVars, conVars>>

PollSleep_OffByOne == PollSleepBody(maxAttempts + 1, TRUE)

PollSleep_NoInitialDelay == PollSleepBody(maxAttempts, FALSE)

PollSleep == PollSleepBody(maxAttempts, TRUE)

\* the for loop ends without a terminal status
PollExhausted ==
    /\ pc = "poll_loop"
    /\ ~(i < maxAttempts)
    /\ Fail("PollTimeout", NoPayload, TRUE)
    /\ UNCHANGED <<config, prepIdx, upstreamImages, fetchCalls, submitCalls,
                   statusQueries, sleeps, sleptMs, i, pollingAttempts, taskId,
                   submitResult, lastStatus, lastPayload, non2xxHistory, result, warned,
                   answered, codecVars, resolveVars, guardVars, imgVars, prepVars, chatVars, conVars>>

\* the attempt is over without a terminal result: next iteration
Continue ==
    /\ i' = i + 1
    /\ pc' = "poll_loop"
    /\ UNCHANGED <<outcome, errDetail, apiCallEnds, result, warned>>

\* status interpretation of checkData read as having task_status status
InterpretAs(checkData, status, emptyIsError) ==
    /\ lastPayload' = checkData
    /\ lastStatus' = checkData.task_status
    /\ IF status = "SUCCEED"
       THEN LET imageData == extractImages(checkData)
            IN  IF emptyIsError /\ Len(imageData) = 0
                THEN /\ Fail("UnexpectedResponse", NoPayload, FALSE)
                     /\ UNCHANGED <<i, result, warned>>
                ELSE /\ warned' = warned + (IF Len(imageData) = 0 THEN 1 ELSE 0)
                     /\ Succeed(imageData)
                     /\ i' = i
       ELSE IF status = "FAILED"
       THEN /\ Fail("UpstreamTaskFailed", checkData, TRUE)
            /\ UNCHANGED <<i, result, warned>>
       ELSE Continue

Interpret_FailedIgnored(checkData) ==
    InterpretAs(checkData,
                IF checkData.task_status = "FAILED" THEN "PENDING" ELSE checkData.task_status,
                FALSE)

Interpret_EmptyIsError(checkData) == InterpretAs(checkData, checkData.task_status, TRUE)

Interpret(checkData) == InterpretAs(checkData, checkData.task_status, FALSE)

\* history of the decided attempts after one more ends non-2xx or 2xx
NextHistory(h, non2xx) ==
    IF non2xx
    THEN (IF h = "all" \/ (h = "none" /\ answered = 0) THEN "all" ELSE "some")
    ELSE (IF h = "none" THEN "none" ELSE "some")

\* a status query settles; first is TRUE for the query sent with the
\* task-type header, FALSE for the retry without it
SettleWith(resp, first, non2xxFatal) ==
    IF resp.kind \in {"abort", "neterr"}
    THEN /\ Fail(ThrownKind(resp.kind), NoPayload, FALSE)
         /\ answered' = answered + 1
         /\ UNCHANGED <<i, result, warned, lastPayload, lastStatus, statusQueries,
                        non2xxHistory>>
    ELSE IF resp.kind = "non2xx"
    THEN IF first /\ configuredTaskType
         THEN /\ statusQueries' = statusQueries + 1
              /\ pc' = "await_retry"
              /\ lastStatus' = "first_non2xx"
              /\ UNCHANGED <<i, result, warned, lastPayload, outcome,
                             errDetail, apiCallEnds, answered, non2xxHistory>>
         ELSE /\ IF non2xxFatal
                 THEN Fail("UpstreamError", NoPayload, FALSE) /\ UNCHANGED <<i, result, warned>>
                 ELSE Continue
              /\ answered' = answered + 1
              /\ lastStatus' = "non2xx"
              /\ non2xxHistory' = NextHistory(non2xxHistory, TRUE)
              /\ UNCHANGED <<lastPayload, statusQueries>>
    ELSE IF resp.kind = "nonjson"
    THEN /\ Fail("MalformedResponse", NoPayload, FALSE)
         /\ answered' = answered + 1
         /\ UNCHANGED <<i, result, warned, lastPayload, lastStatus, statusQueries,
                        non2xxHistory>>
    ELSE /\ Interpret(resp.payload)
         /\ answered' = answered + 1
         /\ non2xxHistory' = NextHistory(non2xxHistory, FALSE)
         /\ statusQueries' = statusQueries

Settle_Non2xxFatal(resp, first) == SettleWith(resp, first, TRUE)

Settle(resp, first) == SettleWith(resp, first, FALSE)

\* a thrown or unreadable status response handled like a non-2xx one
CheckSettles_ThrowIsTransient ==
    /\ pc = "await_check"
    /\ \E resp \in StatusReplies :
         IF resp.kind \in {"abort", "neterr", "nonjson"}
         THEN /\ Continue
              /\ answered' = answered + 1
              /\ UNCHANGED <<lastPayload, lastStatus, statusQueries, non2xxHistory>>
         ELSE Settle(resp, TRUE)
    /\ UNCHANGED <<config, prepIdx, upstreamImages, fetchCalls, submitCalls,
                   sleeps, sleptMs, pollingAttempts, taskId, submitResult, codecVars,
                   resolveVars, guardVars, imgVars, prepVars, chatVars, conVars>>

CheckSettles ==
    /\ pc = "await_check"
    /\ \E resp \in StatusReplies : Settle(resp, TRUE)
    /\ UNCHANGED <<config, prepIdx, upstreamImages, fetchCalls, submitCalls,
                   sleeps, sleptMs, pollingAttempts, taskId, submitResult, codecVars,
                   resolveVars, guardVars, imgVars, prepVars, chatVars, conVars>>

\* the retry handled like a first query: it may be retried again
RetrySettles_RetryAgain ==
    /\ pc = "await_retry"
    /\ \E resp \in StatusReplies : Settle(resp, TRUE)
    /\ UNCHANGED <<config, prepIdx, upstreamImages, fetchCalls, submitCalls,
                   sleeps, sleptMs, pollingAttempts, taskId, submitResult, codecVars,
                   resolveVars, guardVars, imgVars, prepVars, chatVars, conVars>>

RetrySettles ==
    /\ pc = "await_retry"
    /\ \E resp \in StatusReplies : Settle(resp, FALSE)
    /\ UNCHANGED <<config, prepIdx, upstreamImages, fetchCalls, submitCalls,
                   sleeps, sleptMs, pollingAttempts, taskId, submitResult, codecVars,
                   resolveVars, guardVars, imgVars, prepVars, chatVars, conVars>>

Next ==
    \/ PrepareImages
    \/ PrepFetchSettles
    \/ HandleModelScopeStart
    \/ EditFetchSettles
    \/ SubmitSettles
    \/ PollSleep
    \/ PollExhausted
    \/ CheckSettles
    \/ RetrySettles

Spec == Init /\ [][Next]_vars

(***************************************************************************)
(* src/unnamed/part_000 on concrete content: texts are sequences of char   *)
(* codes, as in the codec                                                  *)
(***************************************************************************)
CommaCode == 44
SemiCode  == 59

\* "data:"
DataPrefix  == <<100, 97, 116, 97, 58>>
\* "image/"
ImagePrefix == <<105, 109, 97, 103, 101, 47>>
\* "base64"
Base64Word  == <<98, 97, 115, 101, 54, 52>>
\* ";base64,"
Base64Mark  == <<59, 98, 97, 115, 101, 54, 52, 44>>
\* "application/octet-stream"
OctetStream == <<97, 112, 112, 108, 105, 99, 97, 116, 105, 111, 110, 47, 111, 99, 116, 101, 116, 45, 115, 116, 114, 101, 97, 109>>

RECURSIVE TrimStart(_)
TrimStart(t) ==
    IF t = <<>> THEN <<>>
    ELSE IF IsWhitespace(Head(t)) THEN TrimStart(Tail(t)) ELSE t

RECURSIVE TrimEnd(_)
TrimEnd(t) ==
    IF t = <<>> THEN <<>>
    ELSE IF IsWhitespace(t[Len(t)]) THEN TrimEnd(SubSeq(t, 1, Len(t) - 1)) ELSE t

trim(t) == TrimEnd(TrimStart(t))

LowerCode(c) == IF c \in 65..90 THEN c + 32 ELSE c

toLowerCaseCodes(t) == [k \in 1..Len(t) |-> LowerCode(t[k])]

\* t.indexOf(c): 0-based, -1 when absent
indexOf(t, c) ==
    IF ~includes(t, c) THEN 0 - 1
    ELSE (CHOOSE j \in 1..Len(t) : t[j] = c /\ \A m \in 1..(j - 1) : t[m] # c) - 1

\* t.slice(from, to): 0-based, to exclusive
slice(t, from, to) == SubSeq(t, from + 1, to)

\* a header or field that may be absent
Header(text) == [present |-> TRUE, text |-> text]
NoHeader     == [present |-> FALSE, text |-> <<>>]

normalizeMime_NoLowerCase(mime) ==
    IF ~mime.present \/ mime.text = <<>> THEN <<>>
    ELSE LET semi == indexOf(mime.text, SemiCode)
         IN  trim(IF semi >= 0 THEN slice(mime.text, 0, semi) ELSE mime.text)

\* normalizeMime: <<>> stands for undefined and for "", which both callers
\* treat alike (falsy)
normalizeMime(mime) ==
    IF ~mime.present \/ mime.text = <<>> THEN <<>>
    ELSE LET semi == indexOf(mime.text, SemiCode)
         IN  toLowerCaseCodes(trim(IF semi >= 0 THEN slice(mime.text, 0, semi)
                                                ELSE mime.text))

isDataUrl(url) == startsWith(url, DataPrefix)

Parsed(err, mime, bytes) == [err |-> err, mime |-> mime, bytes |-> bytes]

parseDataUrlToBytes_MimeFirst(dataUrl) ==
    LET comma     == indexOf(dataUrl, CommaCode)
        metaParts == split(slice(dataUrl, 5, comma), SemiCode)
        norm      == normalizeMime(Header(metaParts[1]))
        mime      == IF norm = <<>> THEN OctetStream ELSE norm
        isBase64  == \E k \in 1..Len(metaParts) :
                        toLowerCaseCodes(trim(metaParts[k])) = Base64Word
        dec       == decodeBase64(slice(dataUrl, comma + 1, Len(dataUrl)))
    IN  IF comma < 0 THEN Parsed("InvalidReference", <<>>, <<>>)
        ELSE IF ~startsWith(mime, ImagePrefix) THEN Parsed("InvalidMediaType", <<>>, <<>>)
        ELSE IF ~isBase64 THEN Parsed("UnsupportedEncoding", <<>>, <<>>)
        ELSE IF ~dec.ok THEN Parsed(dec.error, <<>>, <<>>)
        ELSE Parsed("none", mime, dec.bytes)

\* parseDataUrlToBytes on the text of a data URL
parseDataUrlToBytes_Text(dataUrl) ==
    LET comma     == indexOf(dataUrl, CommaCode)
        meta      == slice(dataUrl, 5, comma)
        data      == slice(dataUrl, comma + 1, Len(dataUrl))
        metaParts == split(meta, SemiCode)
        norm      == normalizeMime(Header(metaParts[1]))
        mime      == IF norm = <<>> THEN OctetStream ELSE norm
        isBase64  == \E k \in 1..Len(metaParts) :
                        toLowerCaseCodes(trim(metaParts[k])) = Base64Word
        dec       == decodeBase64(data)
    IN  IF comma < 0 THEN Parsed("InvalidReference", <<>>, <<>>)
        ELSE IF ~isBase64 THEN Parsed("UnsupportedEncoding", <<>>, <<>>)
        ELSE IF ~startsWith(mime, ImagePrefix) THEN Parsed("InvalidMediaType", <<>>, <<>>)
        ELSE IF ~dec.ok THEN Parsed(dec.error, <<>>, <<>>)
        ELSE Parsed("none", mime, dec.bytes)

\* Number.parseInt(text, 10) of a header value: the leading digits, NaN when
\* there is none
RECURSIVE LeadingDigits(_, _)
LeadingDigits(t, acc) ==
    IF t = <<>> \/ Head(t) \notin 48..57 THEN acc
    ELSE LeadingDigits(Tail(t), acc * 10 + (Head(t) - 48))

parseInt(t) ==
    IF t = <<>> \/ Head(t) \notin 48..57 THEN [finite |-> FALSE, value |-> 0]
    ELSE [finite |-> TRUE, value |-> LeadingDigits(t, 0)]

\* the concatenation of the chunks
RECURSIVE Concat(_)
Concat(chunks) == IF chunks = <<>> THEN <<>> ELSE Head(chunks) \o Concat(Tail(chunks))

ResolvedImage_SizeOfText(url, mime, bytes) ==
    [url |-> url, mime |-> mime, bytes |-> bytes, base64 |-> encodeBase64(bytes),
     dataUrl |-> DataPrefix \o mime \o Base64Mark \o encodeBase64(bytes),
     size |-> Len(encodeBase64(bytes))]

\* the ResolvedImage built from mime and bytes
ResolvedImage(url, mime, bytes) ==
    [url |-> url, mime |-> mime, bytes |-> bytes, base64 |-> encodeBase64(bytes),
     dataUrl |-> DataPrefix \o mime \o Base64Mark \o encodeBase64(bytes),
     size |-> Len(bytes)]

(***************************************************************************)
(* SpecImage : one call of resolveImage(url, {maxBytes,                    *)
(* allowPrivateNetwork}) on concrete content                               *)
(***************************************************************************)
\* a reference: the classification of the text (ref) and, for inline
\* references, the text itself
ImgRefOf(ref, text) == [ref |-> ref, text |-> text]
InlineRef(text)     == ImgRefOf(DataRef("text"), text)
RemoteRef(ref)      == ImgRefOf(ref, <<>>)
NoRef               == ImgRefOf(EmptyRef, <<>>)

CdnUrl == UrlRef("https", "name", <<"c","d","n",".","e","x","a","m","p","l","e">>)

\* what fetchFn settles with: it throws, or resolves with a response
Thrown(kind) ==
    [kind |-> kind, ok |-> FALSE, contentType |-> NoHeader, contentLength |-> NoHeader,
     body |-> [present |-> FALSE, chunks |-> <<>>]]
Resp(ok, ct, cl, body) ==
    [kind |-> "response", ok |-> ok, contentType |-> ct, contentLength |-> cl, body |-> body]
Body(chunks) == [present |-> TRUE, chunks |-> chunks]
NoBody       == [present |-> FALSE, chunks |-> <<>>]

ImgCeilings == {2, 3}

ImgBytes == { <<>>, <<77>>, <<1, 255>>, <<0, 63, 128>>, <<1, 2, 3, 4>> }

\* metadata of the sampled data URLs: "image/png;base64", "IMAGE/PNG;BASE64",
\* "image/png", ";base64", "text/plain;base64", "image/png;charset=x;base64",
\* " image/gif ; base64 ", "base64", "text/plain"
MetaSamples ==
    { <<116, 101, 120, 116, 47, 112, 108, 97, 105, 110>>,
      <<105, 109, 97, 103, 101, 47, 112, 110, 103, 59, 98, 97, 115, 101, 54, 52>>,
      <<73, 77, 65, 71, 69, 47, 80, 78, 71, 59, 66, 65, 83, 69, 54, 52>>,
      <<105, 109, 97, 103, 101, 47, 112, 110, 103>>,
      <<59, 98, 97, 115, 101, 54, 52>>,
      <<116, 101, 120, 116, 47, 112, 108, 97, 105, 110, 59, 98, 97, 115, 101, 54, 52>>,
      <<105, 109, 97, 103, 101, 47, 112, 110, 103, 59, 99, 104, 97, 114, 115, 101, 116, 61, 120, 59, 98, 97, 115, 101, 54, 52>>,
      <<32, 105, 109, 97, 103, 101, 47, 103, 105, 102, 32, 59, 32, 98, 97, 115, 101, 54, 52, 32>>,
      <<98, 97, 115, 101, 54, 52>> }

\* payloads that are not encodings: "Q!Q=", "QQ" (no padding), "Q"
OddPayloads == { <<81, 33, 81, 61>>, <<81, 81>>, <<81>> }

PayloadSamples == {encodeBase64(b) : b \in ImgBytes} \cup OddPayloads

\* "DATA:image/png;base64,QQ==" does not start with "data:"
UpperDataUrl == <<68, 65, 84, 65, 58, 105, 109, 97, 103, 101, 47, 112, 110, 103, 59, 98, 97, 115, 101, 54, 52, 44, 81, 81, 61, 61>>

DataUrlTexts ==
    {DataPrefix \o m \o <<CommaCode>> \o pl : m \in MetaSamples, pl \in PayloadSamples}
    \cup {DataPrefix \o m : m \in MetaSamples}
    \cup {DataPrefix, UpperDataUrl}

ImgRefs ==
    {InlineRef(t) : t \in DataUrlTexts}
    \cup {RemoteRef(r) : r \in {PublicUrl, CdnUrl, PrivateV4Url, FtpUrl, TextRef, EmptyRef}}

\* declared content types: "image/png", "IMAGE/JPEG; charset=binary",
\* " image/webp ", "text/html", ";image/png"
ContentTypes ==
    { NoHeader, Header(<<>>),
      Header(<<105, 109, 97, 103, 101, 47, 112, 110, 103>>),
      Header(<<73, 77, 65, 71, 69, 47, 74, 80, 69, 71, 59, 32, 99, 104, 97, 114, 115, 101, 116, 61, 98, 105, 110, 97, 114, 121>>),
      Header(<<32, 105, 109, 97, 103, 101, 47, 119, 101, 98, 112, 32>>),
      Header(<<116, 101, 120, 116, 47, 104, 116, 109, 108>>),
      Header(<<59, 105, 109, 97, 103, 101, 47, 112, 110, 103>>) }

\* declared content lengths: "2", "3", "50", "abc"
ContentLengths ==
    { NoHeader, Header(<<>>), Header(<<50>>), Header(<<51>>), Header(<<53, 48>>), Header(<<97, 98, 99>>) }

Bodies2xx ==
    { NoBody, Body(<<>>), Body(<< <<77>> >>), Body(<< <<1, 255>>, <<>> >>),
      Body(<< <<0, 63>>, <<128>> >>), Body(<< <<1, 2>>, <<3, 4>>, <<5>> >>) }

\* what the server behind a URL may answer: any sampled response for
\* example.com, a few for the other hosts
ServerResponses(ref) ==
    {Thrown("abort"), Thrown("neterr")}
    \cup (IF ref = PublicUrl
          THEN {Resp(ok, ct, cl, b) : ok \in BOOLEAN, ct \in ContentTypes,
                                      cl \in ContentLengths, b \in Bodies2xx}
          ELSE {Resp(FALSE, NoHeader, NoHeader, NoBody),
                Resp(TRUE, Header(<<105, 109, 97, 103, 101, 47, 112, 110, 103>>), NoHeader, Body(<< <<77>> >>)),
                Resp(TRUE, Header(<<73, 77, 65, 71, 69, 47, 74, 80, 69, 71, 59, 32, 99, 104, 97, 114, 115, 101, 116, 61, 98, 105, 110, 97, 114, 121>>), Header(<<50>>),
                     Body(<< <<1>>, <<255>> >>))})

InitImage ==
    /\ ipc = "call" /\ iRef \in ImgRefs /\ iMaxBytes \in ImgCeilings
    /\ iAllowPrivate \in BOOLEAN
    /\ ImgFresh
    /\ CodecIdle /\ ResolveIdle /\ ReqIdle /\ GuardIdle /\ PrepIdle /\ ChatIdle /\ ConIdle

ImgFail(kind) ==
    /\ ipc' = "done"
    /\ iOutcome' = kind
    /\ iImage' = iImage

ImgReturn(mime, bytes) ==
    /\ ipc' = "done"
    /\ iOutcome' = "Resolved"
    /\ iImage' = ResolvedImage(iRef, mime, bytes)

\* resolveImage from its entry to the fetchFn call or to its return / throw
ImgCall ==
    /\ ipc = "call"
    /\ IF iRef.ref.form = "empty"
       THEN ImgFail("InvalidReference") /\ UNCHANGED iFetchCalls
       ELSE IF iRef.ref.form = "data" /\ isDataUrl(iRef.text)
       THEN LET parsed == parseDataUrlToBytes_Text(iRef.text)
            IN  /\ IF parsed.err # "none" THEN ImgFail(parsed.err)
                   ELSE IF Len(parsed.bytes) > iMaxBytes THEN ImgFail("TooLarge")
                   ELSE ImgReturn(parsed.mime, parsed.bytes)
                /\ UNCHANGED iFetchCalls
       ELSE LET u == IF iRef.ref.form = "data"
                     THEN [ok |-> TRUE, protocol |-> "data", hostname |-> NoHost]
                     ELSE ParseUrl(iRef.ref)
            IN  IF ~u.ok THEN ImgFail("InvalidReference") /\ UNCHANGED iFetchCalls
                ELSE IF assertAllowedRemoteUrl(u, iAllowPrivate) # "ok"
                THEN /\ ImgFail(assertAllowedRemoteUrl(u, iAllowPrivate))
                     /\ UNCHANGED iFetchCalls
                ELSE /\ iFetchCalls' = iFetchCalls + 1
                     /\ ipc' = "fetching"
                     /\ UNCHANGED <<iOutcome, iImage>>
    /\ iTimerArmed' = (ipc' = "fetching")
    /\ UNCHANGED <<iRef, iMaxBytes, iAllowPrivate, iResp, iReaderObtained, iReads,
                   iChunks, iTotal, iLockHeld, iCancels, iAborted>>

\* the head of readResponseBytesWithLimit: "TooLarge" when the declared
\* length exceeds the ceiling, "empty" when there is no body, else "read"
ReadHead(resp, maxBytes) ==
    LET declared == parseInt(resp.contentLength.text)
    IN  IF resp.contentLength.present /\ resp.contentLength.text # <<>>
           /\ declared.finite /\ declared.value > maxBytes
        THEN "TooLarge"
        ELSE IF ~resp.body.present THEN "empty"
        ELSE "read"

\* the finally of resolveImage: clearTimeout(timeoutId) on every exit
ClearTimeoutOnExit == iTimerArmed' = IF ipc' = "done" THEN FALSE ELSE iTimerArmed

\* the timer expires while the call awaits: controller.abort()
ImgTimerFires ==
    /\ ipc \in {"fetching", "error_body", "reading", "cancelling"}
    /\ iTimerArmed
    /\ iTimerArmed' = FALSE /\ iAborted' = TRUE
    /\ UNCHANGED <<ipc, iRef, iMaxBytes, iAllowPrivate, iFetchCalls, iResp,
                   iReaderObtained, iReads, iChunks, iTotal, iOutcome, iImage,
                   iLockHeld, iCancels>>

\* what the awaited fetchFn settles with: the abort error once the signal is
\* raised, otherwise whatever the server does
FetchSettlements ==
    IF iAborted THEN {Thrown("abort")}
    ELSE ServerResponses(iRef.ref) \ {Thrown("abort")}

\* fetchFn settles: status and content type are checked, then
\* readResponseBytesWithLimit runs up to its first reader.read(); for a
\* non-2xx response resp.text() is awaited first
AfterFetch(resp, checkDeclared) ==
    LET ct == normalizeMime(resp.contentType)
        hd == IF checkDeclared THEN ReadHead(resp, iMaxBytes)
              ELSE IF ~resp.body.present THEN "empty" ELSE "read"
    IN  /\ iResp' = resp
        /\ IF resp.kind = "abort" THEN ImgFail("Timeout") /\ UNCHANGED iReaderObtained
           ELSE IF resp.kind = "neterr"
           THEN ImgFail("TransportError") /\ UNCHANGED iReaderObtained
           ELSE IF ~resp.ok
           THEN /\ ipc' = "error_body"
                /\ UNCHANGED <<iOutcome, iImage, iReaderObtained>>
           ELSE IF ct = <<>> \/ ~startsWith(ct, ImagePrefix)
           THEN ImgFail("InvalidMediaType") /\ UNCHANGED iReaderObtained
           ELSE IF hd = "TooLarge" THEN ImgFail("TooLarge") /\ UNCHANGED iReaderObtained
           ELSE IF hd = "empty" THEN ImgReturn(ct, <<>>) /\ UNCHANGED iReaderObtained
           ELSE /\ iReaderObtained' = TRUE
                /\ ipc' = "reading"
                /\ UNCHANGED <<iOutcome, iImage>>
        /\ iLockHeld' = (ipc' = "reading")
        /\ ClearTimeoutOnExit

ImgFetchSettles_NoDeclaredCheck ==
    /\ ipc = "fetching"
    /\ \E resp \in FetchSettlements : AfterFetch(resp, FALSE)
    /\ UNCHANGED <<iRef, iMaxBytes, iAllowPrivate, iFetchCalls, iReads, iChunks, iTotal,
                   iCancels, iAborted>>

ImgFetchSettles ==
    /\ ipc = "fetching"
    /\ \E resp \in FetchSettlements : AfterFetch(resp, TRUE)
    /\ UNCHANGED <<iRef, iMaxBytes, iAllowPrivate, iFetchCalls, iReads, iChunks, iTotal,
                   iCancels, iAborted>>

\* resp.text() of a non-2xx response settles; a rejection is replaced by ""
\* (.catch), so either way "Failed to fetch image" is thrown
ImgErrorBody ==
    /\ ipc = "error_body"
    /\ ImgFail("UpstreamError")
    /\ ClearTimeoutOnExit
    /\ UNCHANGED <<iRef, iMaxBytes, iAllowPrivate, iFetchCalls, iResp, iReaderObtained,
                   iReads, iChunks, iTotal, iLockHeld, iCancels, iAborted>>

\* one reader.read(): the next chunk, the end of the stream, or a rejection
\* (the abort error once the signal is raised, else a broken connection);
\* a chunk that takes the total past the ceiling is followed by
\* reader.cancel(); every exit passes through reader.releaseLock()
ImgReadWith(limited) ==
    /\ ipc = "reading"
    /\ iReads' = iReads + 1
    /\ IF iAborted
       THEN /\ ImgFail("Timeout")
            /\ UNCHANGED <<iChunks, iTotal, iCancels>>
       ELSE \/ /\ iReads < Len(iResp.body.chunks)
               /\ LET value == iResp.body.chunks[iReads + 1]
                  IN  /\ iTotal' = iTotal + Len(value)
                      /\ IF limited /\ iTotal + Len(value) > iMaxBytes
                         THEN /\ ipc' = "cancelling"
                              /\ iCancels' = iCancels + 1
                              /\ UNCHANGED <<iChunks, iOutcome, iImage>>
                         ELSE /\ iChunks' = Append(iChunks, value)
                              /\ UNCHANGED <<ipc, iOutcome, iImage, iCancels>>
            \/ /\ iReads = Len(iResp.body.chunks)
               /\ ImgReturn(normalizeMime(iResp.contentType), Concat(iChunks))
               /\ UNCHANGED <<iChunks, iTotal, iCancels>>
            \/ /\ ImgFail("TransportError")
               /\ UNCHANGED <<iChunks, iTotal, iCancels>>
    /\ iLockHeld' = (ipc' # "done")
    /\ ClearTimeoutOnExit
    /\ UNCHANGED <<iRef, iMaxBytes, iAllowPrivate, iFetchCalls, iResp, iReaderObtained,
                   iAborted>>

ImgRead_Unlimited == ImgReadWith(FALSE)

ImgRead == ImgReadWith(TRUE)

\* reader.cancel() settles (a rejection is ignored), the too-large error is
\* thrown and the finally releases the lock
ImgCancelSettles ==
    /\ ipc = "cancelling"
    /\ ImgFail("TooLarge")
    /\ iLockHeld' = FALSE
    /\ ClearTimeoutOnExit
    /\ UNCHANGED <<iRef, iMaxBytes, iAllowPrivate, iFetchCalls, iResp, iReaderObtained,
                   iReads, iChunks, iTotal, iCancels, iAborted>>

ImgNext ==
    \/ ImgCall \/ ImgFetchSettles \/ ImgErrorBody \/ ImgRead \/ ImgCancelSettles
    \/ ImgTimerFires

ImgUnchanged == UNCHANGED <<codecVars, resolveVars, reqVars, guardVars, prepVars, chatVars, conVars>>

NextImage == ImgNext /\ ImgUnchanged

SpecImage == InitImage /\ [][NextImage]_vars

(***************************************************************************)
(* SpecPrepare : prepareImagesForUpstream(imageUrls, {mode, base64Format,  *)
(* maxBytes, allowPrivateNetwork}) on concrete content; each reference is  *)
(* resolved by the resolveImage steps of SpecImage                         *)
(***************************************************************************)
MaxPrepLen == 3

\* "data:image/png;base64,TQ==" and "data:text/plain;base64,TQ=="
PngDataUrl  == DataPrefix \o <<105, 109, 97, 103, 101, 47, 112, 110, 103>> \o Base64Mark \o encodeBase64(<<77>>)
TextDataUrl == DataPrefix \o <<116, 101, 120, 116, 47, 112, 108, 97, 105, 110>> \o Base64Mark \o encodeBase64(<<77>>)

PrepRefs == { NoRef, InlineRef(PngDataUrl), InlineRef(TextDataUrl),
              RemoteRef(CdnUrl), RemoteRef(PrivateV4Url) }

PrepLists == UNION {[1..n -> PrepRefs] : n \in 0..MaxPrepLen}

\* typeof url === "string" && url.trim() !== ""
NonBlankUrl(url) == url.ref.form # "empty"

InitPrepare ==
    /\ ppc = "call" /\ pUrls \in PrepLists
    /\ pMode \in {"passthrough", "fetch_to_base64"}
    /\ pFormat \in {"data_url", "raw_base64"}
    /\ pIdx = 1 /\ pOut = <<>> /\ pResolved = <<>> /\ pFetched = <<>> /\ pOutcome = "none"
    /\ ipc = "idle" /\ iRef = NoRef /\ iMaxBytes = 3 /\ iAllowPrivate = FALSE
    /\ ImgFresh
    /\ CodecIdle /\ ResolveIdle /\ ReqIdle /\ GuardIdle /\ ChatIdle /\ ConIdle

PrepUnchanged == UNCHANGED <<codecVars, resolveVars, reqVars, guardVars, chatVars, conVars>>

\* entry: the empty list and passthrough mode return at once
PrepCall ==
    /\ ppc = "call"
    /\ IF Len(pUrls) = 0
       THEN /\ ppc' = "done" /\ pOutcome' = "Returned" /\ pOut' = <<>>
       ELSE IF pMode = "passthrough"
       THEN /\ ppc' = "done" /\ pOutcome' = "Returned"
            /\ pOut' = SelectSeq(pUrls, NonBlankUrl)
       ELSE /\ ppc' = "loop"
            /\ UNCHANGED <<pOutcome, pOut>>
    /\ UNCHANGED <<pUrls, pMode, pFormat, pIdx, pResolved, pFetched, imgVars>>
    /\ PrepUnchanged

\* one turn of the for loop: a blank entry is skipped, any other is handed to
\* resolveImage; after the last entry out is returned
PrepStep ==
    /\ ppc = "loop"
    /\ IF pIdx > Len(pUrls)
       THEN /\ ppc' = "done" /\ pOutcome' = "Returned"
            /\ UNCHANGED <<pIdx, imgVars>>
       ELSE IF ~NonBlankUrl(pUrls[pIdx])
       THEN /\ pIdx' = pIdx + 1
            /\ UNCHANGED <<ppc, pOutcome, imgVars>>
       ELSE /\ ppc' = "resolving"
            /\ ipc' = "call" /\ iRef' = pUrls[pIdx]
            /\ UNCHANGED <<pIdx, pOutcome, iMaxBytes, iAllowPrivate, iFetchCalls, iResp,
                           iReaderObtained, iReads, iChunks, iTotal, iOutcome, iImage,
                           iLockHeld, iCancels, iTimerArmed, iAborted>>
    /\ UNCHANGED <<pUrls, pMode, pFormat, pOut, pResolved, pFetched>>
    /\ PrepUnchanged

\* resolveImage has returned or thrown: the entry is pushed and the loop goes
\* on, or the error leaves prepareImagesForUpstream (failFast)
PrepCollectWith(failFast) ==
    /\ ppc = "resolving" /\ ipc = "done"
    /\ pFetched' = IF iFetchCalls > 0
                   THEN Append(pFetched, [idx |-> pIdx, slot |-> Len(pOut) + 1,
                                          resp |-> iResp])
                   ELSE pFetched
    /\ IF iOutcome = "Resolved"
       THEN /\ pOut' = Append(pOut, IF pFormat = "raw_base64" THEN iImage.base64
                                                             ELSE iImage.dataUrl)
            /\ pResolved' = Append(pResolved, iImage)
            /\ pIdx' = pIdx + 1
            /\ ppc' = "loop"
            /\ pOutcome' = pOutcome
       ELSE IF failFast
       THEN /\ ppc' = "done" /\ pOutcome' = iOutcome
            /\ UNCHANGED <<pOut, pResolved, pIdx>>
       ELSE /\ pIdx' = pIdx + 1
            /\ ppc' = "loop"
            /\ UNCHANGED <<pOut, pResolved, pOutcome>>
    /\ ipc' = "idle" /\ iRef' = NoRef
    /\ iFetchCalls' = 0 /\ iResp' = NoResp /\ iReaderObtained' = FALSE /\ iReads' = 0
    /\ iChunks' = <<>> /\ iTotal' = 0 /\ iOutcome' = "none" /\ iImage' = NoImage
    /\ iLockHeld' = FALSE /\ iCancels' = 0 /\ iTimerArmed' = FALSE /\ iAborted' = FALSE
    /\ UNCHANGED <<pUrls, pMode, pFormat, iMaxBytes, iAllowPrivate>>
    /\ PrepUnchanged

PrepCollect_SkipFailed == PrepCollectWith(FALSE)

PrepCollect == PrepCollectWith(TRUE)

NextPrepare == PrepCall \/ PrepStep \/ PrepCollect \/ NextImage

SpecPrepare == InitPrepare /\ [][NextPrepare]_vars

(***************************************************************************)
(* SpecChat : parseChatRequestBody on a multipart form (a JSON payload and *)
(* file entries), then normalizeChatRequest and                            *)
(* extractLastUserPromptAndImages, as handleChatCompletions calls them.    *)
(* Texts are sequences of character codes; field names are sequences of    *)
(* one-character strings.                                                  *)
(***************************************************************************)
MaxMsgs == 2

NewlineCode == 10

\* an absent (or non-string) field
NoText == <<0 - 1>>
NoRole == "<none>"

\* content items: a bare string, {type, text}, {type, image_url: {url}}
StrItem(t)       == [type |-> "<string>", text |-> t, url |-> NoText]
TextItem(t)      == [type |-> "text", text |-> t, url |-> NoText]
ImageUrlItem(u)  == [type |-> "image_url", text |-> NoText, url |-> u]

\* message content: a string, an array of items, null, or a single item
StrContent(t)     == [kind |-> "string", text |-> t, items |-> <<>>]
ArrContent(items) == [kind |-> "array", text |-> NoText, items |-> items]
NullContent       == [kind |-> "null", text |-> NoText, items |-> <<>>]
ObjContent(item)  == [kind |-> "object", text |-> NoText, items |-> <<item>>]

RawMessage(role, content) == [role |-> role, content |-> content]

TextPart(t)  == [kind |-> "text", text |-> t, url |-> NoText]
ImagePart(u) == [kind |-> "image", text |-> NoText, url |-> u]

extractTextPart(item) ==
    IF item.type = "<string>" THEN item.text
    ELSE IF item.type \in {"text", "input_text"} /\ item.text # NoText THEN item.text
    ELSE NoText

extractImagePart(item) ==
    IF item.type \notin {"image_url", "input_image", "image"} THEN NoText
    ELSE IF item.url # NoText /\ trim(item.url) # <<>> THEN item.url
    ELSE NoText

\* the parts one item of a content array contributes (none or one)
PartsOfItem(item) ==
    IF item.type = "<string>"
    THEN IF trim(item.text) # <<>> THEN <<TextPart(item.text)>> ELSE <<>>
    ELSE LET text == extractTextPart(item)
         IN  IF text # NoText /\ trim(text) # <<>> THEN <<TextPart(text)>>
             ELSE LET image == extractImagePart(item)
                  IN  IF image # NoText THEN <<ImagePart(image)>> ELSE <<>>

RECURSIVE PartsOfItems(_)
PartsOfItems(items) ==
    IF items = <<>> THEN <<>> ELSE PartsOfItem(Head(items)) \o PartsOfItems(Tail(items))

\* null content is the array [null], whose item yields no part
normalizeContentToParts(content) ==
    IF content.kind = "string"
    THEN IF trim(content.text) = <<>> THEN <<>> ELSE <<TextPart(content.text)>>
    ELSE PartsOfItems(content.items)

\* the messages of normalizeChatRequest(body)
normalizeChatRequest(messages) ==
    [k \in 1..Len(messages) |->
        [role  |-> IF messages[k].role = NoRole THEN "user" ELSE messages[k].role,
         parts |-> normalizeContentToParts(messages[k].content)]]

\* texts.join(sep)
RECURSIVE join(_, _)
join(texts, sep) ==
    IF texts = <<>> THEN <<>>
    ELSE IF Len(texts) = 1 THEN texts[1]
    ELSE texts[1] \o <<sep>> \o join(Tail(texts), sep)

IsTextPart(p)   == p.kind = "text"
IsImagePart(p)  == p.kind = "image"
NonBlankText(u) == u # NoText /\ trim(u) # <<>>

\* the index of the last message whose role is "user", 0 when there is none
LastUserIndex(messages) ==
    IF \E k \in 1..Len(messages) : messages[k].role = "user"
    THEN CHOOSE k \in 1..Len(messages) :
            /\ messages[k].role = "user"
            /\ \A m \in (k + 1)..Len(messages) : messages[m].role # "user"
    ELSE 0

FirstUserIndex(messages) ==
    IF \E k \in 1..Len(messages) : messages[k].role = "user"
    THEN CHOOSE k \in 1..Len(messages) :
            /\ messages[k].role = "user"
            /\ \A m \in 1..(k - 1) : messages[m].role # "user"
    ELSE 0

PromptAndImagesAt(messages, idx) ==
    IF idx = 0 THEN [prompt |-> <<>>, images |-> <<>>]
    ELSE LET msg    == messages[idx]
             tparts == SelectSeq(msg.parts, IsTextPart)
             iparts == SelectSeq(msg.parts, IsImagePart)
             texts  == [k \in 1..Len(tparts) |-> tparts[k].text]
             urls   == [k \in 1..Len(iparts) |-> iparts[k].url]
         IN  [prompt |-> trim(join(texts, NewlineCode)),
              images |-> SelectSeq(urls, NonBlankText)]

extractLastUserPromptAndImages_FirstUser(messages) ==
    PromptAndImagesAt(messages, FirstUserIndex(messages))

extractLastUserPromptAndImages(messages) ==
    PromptAndImagesAt(messages, LastUserIndex(messages))

\* body.messages after injectImagesIntoLastUserMessage(body, dataUrls)
injectImagesIntoLastUserMessage(messages, dataUrls) ==
    IF dataUrls = <<>> THEN messages
    ELSE LET idx   == LastUserIndex(messages)
             added == [k \in 1..Len(dataUrls) |-> ImageUrlItem(dataUrls[k])]
         IN  IF idx = 0
             THEN Append(messages, RawMessage("user", ArrContent(added)))
             ELSE LET current    == messages[idx].content
                      contentArr == IF current.kind = "string"
                                    THEN <<TextItem(current.text)>>
                                    ELSE current.items
                  IN  [messages EXCEPT ![idx].content = ArrContent(contentArr \o added)]

File(key, type, bytes) == [key |-> key, type |-> type, bytes |-> bytes]

\* normalizeMime of the request parser: trim, lower-case, cut at ";"
normalizeFileMime(mime) ==
    LET v    == toLowerCaseCodes(trim(mime))
        semi == indexOf(v, SemiCode)
    IN  IF semi >= 0 THEN slice(v, 0, semi) ELSE v

maybeImageField(key) ==
    LET lower == toLowerCase(key)
    IN  \/ lower \in {<<"f","i","l","e">>, <<"i","m","a","g","e">>,
                      <<"i","m","a","g","e","s">>, <<"f","i","l","e","s">>}
        \/ endsWith(lower, <<"f","i","l","e">>)
        \/ endsWith(lower, <<"i","m","a","g","e">>)
        \/ endsWith(lower, <<"i","m","a","g","e","s">>)
        \/ endsWith(lower, <<"[","]">>)

\* the entries the loop of parseMultipartChatRequest does not skip
IsUpload(file) ==
    maybeImageField(file.key) \/ startsWith(normalizeFileMime(file.type), ImagePrefix)

fileToDataUrl(file, maxBytes) ==
    LET mime == normalizeFileMime(file.type)
    IN  IF ~startsWith(mime, ImagePrefix) THEN [err |-> "InvalidFileType", dataUrl |-> <<>>]
        ELSE IF Len(file.bytes) > maxBytes THEN [err |-> "TooLarge", dataUrl |-> <<>>]
        ELSE [err |-> "none",
              dataUrl |-> DataPrefix \o mime \o Base64Mark \o encodeBase64(file.bytes)]

\* the loop over form.entries(): the data URLs so far, or the first error
RECURSIVE CollectDataUrls(_, _, _)
CollectDataUrls(files, maxBytes, dataUrls) ==
    IF files = <<>> THEN [err |-> "none", dataUrls |-> dataUrls]
    ELSE IF ~IsUpload(Head(files)) THEN CollectDataUrls(Tail(files), maxBytes, dataUrls)
    ELSE LET r == fileToDataUrl(Head(files), maxBytes)
         IN  IF r.err # "none" THEN [err |-> r.err, dataUrls |-> dataUrls]
             ELSE CollectDataUrls(Tail(files), maxBytes, Append(dataUrls, r.dataUrl))

parseMultipartChatRequest(messages, files, maxBytes) ==
    LET c == CollectDataUrls(files, maxBytes, <<>>)
    IN  IF c.err # "none"
        THEN [err |-> c.err, body |-> messages, injectedImageCount |-> 0, warnings |-> 0]
        ELSE IF Len(c.dataUrls) = 0
        THEN [err |-> "none", body |-> messages, injectedImageCount |-> 0, warnings |-> 1]
        ELSE [err |-> "none", body |-> injectImagesIntoLastUserMessage(messages, c.dataUrls),
              injectedImageCount |-> Len(c.dataUrls), warnings |-> 0]

\* "cat", " dog" followed by a newline, "https://x/a.png", "http://y/b", " "
CatText    == <<99, 97, 116>>
PaddedText == <<32, 100, 111, 103, 10>>
UrlA       == <<104, 116, 116, 112, 115, 58, 47, 47, 120, 47, 97, 46, 112, 110, 103>>
UrlB       == <<104, 116, 116, 112, 58, 47, 47, 121, 47, 98>>
BlankText  == <<32>>

ContentSamples ==
    { StrContent(CatText), StrContent(PaddedText), NullContent,
      ObjContent(ImageUrlItem(UrlB)),
      ArrContent(<<TextItem(CatText), ImageUrlItem(UrlA)>>),
      ArrContent(<<ImageUrlItem(UrlB), StrItem(PaddedText), ImageUrlItem(BlankText),
                   TextItem(BlankText), TextItem(CatText), ImageUrlItem(UrlA)>>) }

RawMessages == {RawMessage(r, c) : r \in {"user", "assistant", NoRole}, c \in ContentSamples}

ChatBodies == UNION {[1..n -> RawMessages] : n \in 0..MaxMsgs}

\* image/png under "image"; "IMAGE/JPEG; q=1" under "Photo"; text/plain
\* under "doc" (skipped); text/plain under "file" (rejected)
PngFile  == File(<<"i","m","a","g","e">>, <<105, 109, 97, 103, 101, 47, 112, 110, 103>>, <<77>>)
JpegFile == File(<<"P","h","o","t","o">>,
                 <<73, 77, 65, 71, 69, 47, 74, 80, 69, 71, 59, 32, 113, 61, 49>>, <<1, 255>>)
DocFile  == File(<<"d","o","c">>, <<116, 101, 120, 116, 47, 112, 108, 97, 105, 110>>, <<0, 63, 128>>)
BadFile  == File(<<"f","i","l","e">>, <<116, 101, 120, 116, 47, 112, 108, 97, 105, 110>>, <<77>>)

FileLists ==
    { <<>>, <<DocFile>>, <<PngFile>>, <<JpegFile, PngFile>>, <<PngFile, DocFile, JpegFile>>,
      <<BadFile>>, <<PngFile, BadFile>> }

InitChat ==
    /\ chpc = "parse" /\ chBody \in ChatBodies /\ chFiles \in FileLists
    /\ chParsed = NoParsed /\ chExtract = NoExtract
    /\ CodecIdle /\ ResolveIdle /\ ReqIdle /\ GuardIdle /\ ImgIdle /\ PrepIdle /\ ConIdle

ChatUnchanged ==
    UNCHANGED <<codecVars, resolveVars, reqVars, guardVars, imgVars, prepVars, conVars>>

\* parseChatRequestBody for a multipart request; MAX_IMAGE_BYTES is read
\* from the environment at the call
ParseBody ==
    /\ chpc = "parse"
    /\ \E maxBytes \in ImgCeilings :
         chParsed' = parseMultipartChatRequest(chBody, chFiles, maxBytes)
    /\ chpc' = IF chParsed'.err = "none" THEN "parsed" ELSE "done"
    /\ UNCHANGED <<chBody, chFiles, chExtract>>
    /\ ChatUnchanged

\* normalizeChatRequest, then extractLastUserPromptAndImages
NormalizeAndExtract ==
    /\ chpc = "parsed"
    /\ chExtract' = extractLastUserPromptAndImages(normalizeChatRequest(chParsed.body))
    /\ chpc' = "done"
    /\ UNCHANGED <<chBody, chFiles, chParsed>>
    /\ ChatUnchanged

NextChat == ParseBody \/ NormalizeAndExtract

SpecChat == InitChat /\ [][NextChat]_vars

(***************************************************************************)
(* SpecConcurrent : two requests handled at the same time by               *)
(* handleChatCompletions -> prepareImagesForUpstream -> handleModelScope.  *)
(* Every request runs its own invocation of the async handlers; a step is  *)
(* the code of one request between two awaits. The only state the          *)
(* requests share is the environment (MODELSCOPE_TASK_TYPE), which is not  *)
(* written.                                                                *)
(***************************************************************************)
Reqs == {1, 2}

MaxImages == 2

\* the locals of one request: images still to resolve, the rank of the last
\* kind of call issued (1 resolution, 2 submission, 3 status query), calls
\* awaited, pollingAttempts, completed sleeps, the last response, the outcome
FreshRequest(n) ==
    [pc |-> "start", left |-> n, phase |-> 0, inFlight |-> 0, attempts |-> 0,
     sleeps |-> 0, last |-> "none", outcome |-> "none"]

InitConcurrent ==
    /\ con \in [Reqs -> {FreshRequest(n) : n \in 0..MaxImages}]
    /\ conTaskType \in BOOLEAN
    /\ CodecIdle /\ ResolveIdle /\ ReqIdle /\ GuardIdle /\ ImgIdle /\ PrepIdle /\ ChatIdle

ConUnchanged ==
    UNCHANGED <<conTaskType, codecVars, resolveVars, reqVars, guardVars, imgVars,
                prepVars, chatVars>>

\* request r moves to q; nothing else changes
ConStep(r, q) == con' = [con EXCEPT ![r] = q] /\ ConUnchanged

\* the next call of a request that has resolved all but n images
IssueNext(q, n) ==
    IF n > 0
    THEN [q EXCEPT !.pc = "resolve_wait", !.left = n, !.phase = 1, !.inFlight = @ + 1]
    ELSE [q EXCEPT !.pc = "submit_wait", !.left = 0, !.phase = 2, !.inFlight = @ + 1]

ConEnd(q, reply, kind) ==
    [q EXCEPT !.pc = "done", !.last = reply, !.outcome = kind]

\* the request reaches its first await
ConStart(r) ==
    /\ con[r].pc = "start"
    /\ ConStep(r, IssueNext(con[r], con[r].left))

\* resolveImage settles inside the loop of prepareImagesForUpstream
ConResolveSettles(r) ==
    /\ con[r].pc = "resolve_wait"
    /\ \E ok \in BOOLEAN :
         LET q == [con[r] EXCEPT !.inFlight = @ - 1]
         IN  IF ok THEN ConStep(r, IssueNext(q, q.left - 1))
             ELSE ConStep(r, ConEnd(q, "resolve_failed", "ResolveError"))

\* the submission settles
ConSubmitSettles(r) ==
    /\ con[r].pc = "submit_wait"
    /\ \E reply \in {"thrown", "non2xx", "images", "task_id", "neither"} :
         LET q == [con[r] EXCEPT !.inFlight = @ - 1]
         IN  CASE reply = "thrown"  -> ConStep(r, ConEnd(q, reply, "TransportError"))
               [] reply = "non2xx"  -> ConStep(r, ConEnd(q, reply, "SubmitError"))
               [] reply = "images"  -> ConStep(r, ConEnd(q, reply, "Success"))
               [] reply = "neither" -> ConStep(r, ConEnd(q, reply, "UnexpectedResponse"))
               [] reply = "task_id" -> ConStep(r, [q EXCEPT !.pc = "sleeping", !.last = reply])

\* the sleep of one loop turn ends: pollingAttempts++ and the status query
ConPollSleep_SharedCounter(r) ==
    /\ con[r].pc = "sleeping"
    /\ con' = [q \in Reqs |->
                 IF q = r
                 THEN [con[r] EXCEPT !.pc = "query_wait", !.sleeps = @ + 1,
                                     !.attempts = @ + 1, !.phase = 3, !.inFlight = @ + 1,
                                     !.last = "none"]
                 ELSE [con[q] EXCEPT !.attempts = @ + 1]]
    /\ ConUnchanged

ConPollSleep(r) ==
    /\ con[r].pc = "sleeping"
    /\ ConStep(r, [con[r] EXCEPT !.pc = "query_wait", !.sleeps = @ + 1,
                                 !.attempts = @ + 1, !.phase = 3, !.inFlight = @ + 1,
                                 !.last = "none"])

\* continue: the next turn of the loop, or the loop is exhausted
ConContinue(q, reply) ==
    IF q.attempts < maxAttempts
    THEN [q EXCEPT !.pc = "sleeping", !.last = reply]
    ELSE ConEnd(q, reply, "PollTimeout")

ConSettle(r, reply, first) ==
    LET q == [con[r] EXCEPT !.inFlight = @ - 1]
    IN  CASE reply = "thrown"  -> ConStep(r, ConEnd(q, reply, "TransportError"))
          [] reply = "SUCCEED" -> ConStep(r, ConEnd(q, reply, "Success"))
          [] reply = "FAILED"  -> ConStep(r, ConEnd(q, reply, "Failed"))
          [] reply = "PENDING" -> ConStep(r, ConContinue(q, reply))
          [] reply = "non2xx"  ->
               IF first /\ conTaskType
               THEN ConStep(r, [q EXCEPT !.pc = "retry_wait", !.last = reply,
                                         !.inFlight = @ + 1])
               ELSE ConStep(r, ConContinue(q, reply))

ConReplies == {"thrown", "non2xx", "SUCCEED", "FAILED", "PENDING"}

\* the status query of a turn settles
ConQuerySettles(r) ==
    /\ con[r].pc = "query_wait"
    /\ \E reply \in ConReplies : ConSettle(r, reply, TRUE)

\* the retry without the task-type header settles
ConRetrySettles(r) ==
    /\ con[r].pc = "retry_wait"
    /\ \E reply \in ConReplies : ConSettle(r, reply, FALSE)

NextConcurrent ==
    \E r \in Reqs :
        \/ ConStart(r) \/ ConResolveSettles(r) \/ ConSubmitSettles(r)
        \/ ConPollSleep(r) \/ ConQuerySettles(r) \/ ConRetrySettles(r)

SpecConcurrent == InitConcurrent /\ [][NextConcurrent]_vars

(***************************************************************************)
(* Properties                                                              *)
(***************************************************************************)
\* the address the URL names is private / loopback / link-local
HostIsPrivate(ref) == isPrivateIp(ref.host)

IsHttp(ref) == ref.scheme \in {"http", "https"}

\* C1: for a non-inline reference resolveImage invokes the transport only if
\* the scheme is http or https and (allowPrivateNetwork or the host is not
\* private); every other parsed URL fails with the unsupported-scheme resp.
\* SSRF-blocked error and makes zero transport calls.
C1_TransportOnlyForAllowedUrl ==
    /\ rFetchCalls > 0 =>
         /\ rUrl.form = "url"
         /\ IsHttp(rUrl)
         /\ (rAllowPrivate \/ ~HostIsPrivate(rUrl))
    /\ (rpc = "done" /\ rUrl.form = "url" /\ ~IsHttp(rUrl)) =>
         (rOutcome = "UnsupportedScheme" /\ rFetchCalls = 0)
    /\ (rpc = "done" /\ rUrl.form = "url" /\ IsHttp(rUrl)
          /\ ~rAllowPrivate /\ HostIsPrivate(rUrl)) =>
         (rOutcome = "BlockedBySsrfPolicy" /\ rFetchCalls = 0)

\* C2: an image-edit job whose reference image is a remote http(s) URL with a
\* private host, private-network access disabled, fails with the SSRF-blocked
\* error and makes no submission and no status query, in either input mode.
C2_PrivateReferenceNeverSubmitted ==
    ( /\ isImageEditModel
      /\ ~allowPrivate
      /\ Len(images) >= 1
      /\ images[1].form = "url" /\ IsHttp(images[1]) /\ HostIsPrivate(images[1]) )
    => /\ submitCalls = 0
       /\ statusQueries = 0
       /\ (pc = "done" => outcome = "BlockedBySsrfPolicy")

\* C3: decodeBase64(encodeBase64(B)) = B for every byte sequence B.
C3_RoundTrip ==
    cpc = "decoded" => (decoded.ok /\ decoded.bytes = bytesIn)

C3_Witness ==
    /\ cpc = "decoded" /\ Len(bytesIn) = 2 /\ Len(encoded) = 4
    /\ encoded[4] = EqualsCode /\ decoded.bytes = bytesIn

PcRank ==
    IF pc = "prepare" THEN 0
    ELSE IF pc = "prep_fetching" THEN 1
    ELSE IF pc = "handle" THEN 2
    ELSE IF pc = "edit_fetching" THEN 3
    ELSE IF pc = "submitting" THEN 4
    ELSE IF pc = "done" THEN 6
    ELSE 5

\* every step of the handler makes progress
Progress == PcRank + fetchCalls + submitCalls + statusQueries + answered

\* how an attempt ends when its query is answered and read without a terminal
\* status: a non-2xx response, or a 2xx JSON payload with another status
NonTerminalResults == NonTerminalStatuses \cup {"non2xx"}

\* C4 as stated: at most 60 poll attempts, and whenever none of the 60
\* attempts yields a 2xx response with SUCCEED or FAILED the job ends in the
\* poll-timeout failure.
C4_TimeoutUnlessTerminalStatus ==
    /\ pollingAttempts <= maxAttempts
    /\ ( /\ submitResult = "task_id" /\ pc = "done"
         /\ pollingAttempts = maxAttempts
         /\ lastStatus \notin TerminalStatuses )
       => outcome = "PollTimeout"

C4_Bounded ==
    /\ pollingAttempts <= maxAttempts
    /\ sleeps <= maxAttempts
    /\ ( /\ submitResult = "task_id" /\ pc = "done"
         /\ pollingAttempts = maxAttempts
         /\ lastStatus \in NonTerminalResults )
       => outcome = "PollTimeout"
    /\ outcome = "PollTimeout" =>
         /\ pollingAttempts = maxAttempts
         /\ answered = maxAttempts
         /\ lastStatus \in NonTerminalResults
    /\ ( /\ submitResult = "task_id" /\ pc = "done"
         /\ lastStatus \notin (TerminalStatuses \cup NonTerminalResults) )
       => outcome \in {"Timeout", "TransportError", "MalformedResponse"}

\* C4 amended: at most 60 poll attempts are made and every step of the job
\* makes progress towards its end; if all 60 attempts are answered (non-2xx, or
\* 2xx JSON with a status other than SUCCEED / FAILED) the job ends in the
\* poll-timeout failure; a status query that throws or a 2xx body that is not
\* JSON ends the job with that error instead.
C4_TimeoutAfterSixtyAnsweredAttempts ==
    [] C4_Bounded /\ [][Progress' > Progress]_vars

C4_Witness ==
    /\ pc = "done" /\ outcome = "PollTimeout"
    /\ pollingAttempts = maxAttempts /\ statusQueries = maxAttempts

C5_Inv ==
    lastStatus = "SUCCEED" =>
        /\ pc = "done" /\ outcome = "Success"
        /\ pollingAttempts \in 1..maxAttempts
        /\ pollingAttempts = answered
        /\ pollingAttempts = i + 1
        /\ sleeps = pollingAttempts
        /\ sleptMs = PollIntervalMs * pollingAttempts

\* C5: when SUCCEED is returned on attempt k the job ends in success after
\* exactly k attempts, having slept one 5000 ms interval before each of them,
\* and no status query or sleep follows the SUCCEED response.
C5_SuccessAfterExactlyKPolls ==
    [] C5_Inv
    /\ [][lastStatus = "SUCCEED" =>
            (statusQueries' = statusQueries /\ sleeps' = sleeps)]_vars

C5_Witness ==
    /\ lastStatus = "SUCCEED" /\ outcome = "Success"
    /\ pollingAttempts = 3 /\ statusQueries = 3 /\ sleptMs = 3 * PollIntervalMs
    /\ Len(result) > 0

C6_Inv ==
    /\ lastStatus = "FAILED" =>
         /\ pc = "done" /\ outcome = "UpstreamTaskFailed"
         /\ errDetail = lastPayload
         /\ lastPayload.task_status = "FAILED"
    /\ lastStatus \in NonTerminalStatuses =>
         \/ (pc = "poll_loop" /\ outcome = "none")
         \/ (pc = "done" /\ outcome = "PollTimeout" /\ i = maxAttempts)

\* C6: a 2xx FAILED status fails the job at once with the upstream-task-failed
\* error carrying the raw status payload, and no sleep or status query
\* follows; any other status than SUCCEED / FAILED leaves the job running.
C6_FailedIsTerminal ==
    [] C6_Inv
    /\ [][lastStatus = "FAILED" =>
            (statusQueries' = statusQueries /\ sleeps' = sleeps)]_vars

C6_Witness ==
    /\ lastStatus = "FAILED" /\ outcome = "UpstreamTaskFailed"
    /\ pollingAttempts = 1 /\ statusQueries = 1 /\ errDetail.task_status = "FAILED"

\* C7: a non-2xx status response never ends the job: the attempt is consumed,
\* the loop goes on, a later SUCCEED / FAILED is honoured, and 60 non-2xx
\* attempts give the poll-timeout failure, never an upstream error.
C7_Non2xxIsTransient ==
    /\ lastStatus = "non2xx" =>
         \/ (pc = "poll_loop" /\ outcome = "none" /\ i = pollingAttempts)
         \/ (pc = "done" /\ outcome = "PollTimeout" /\ i = maxAttempts)
    /\ (non2xxHistory = "all" /\ lastStatus = "non2xx" /\ answered = maxAttempts
          /\ pc = "done") => outcome = "PollTimeout"
    /\ submitResult = "task_id" => outcome # "UpstreamError"
    /\ (non2xxHistory = "some" /\ lastStatus = "SUCCEED") => outcome = "Success"
    /\ (non2xxHistory = "some" /\ lastStatus = "FAILED") => outcome = "UpstreamTaskFailed"

C7_Witness ==
    /\ non2xxHistory = "all" /\ lastStatus = "non2xx" /\ answered = maxAttempts
    /\ pc = "done" /\ outcome = "PollTimeout"

\* C8 as stated: a 2xx submission without task_id always ends in the success
\* result built from the extracted references, even when none is extracted,
\* with zero sleeps and zero status queries.
C8_FastPathAlwaysSucceeds ==
    (submitResult = "no_task_id" /\ pc = "done") =>
        /\ outcome = "Success"
        /\ result = extractImages(lastPayload)
        /\ sleeps = 0 /\ statusQueries = 0

\* C8 amended: a 2xx submission without task_id is decided in the same call
\* with zero sleeps and zero status queries: success built from the extracted
\* references when there is at least one, the unexpected-response error when
\* the extraction is empty.
C8_FastPathDecidedInCall ==
    submitResult = "no_task_id" =>
        /\ pc = "done"
        /\ sleeps = 0 /\ statusQueries = 0 /\ pollingAttempts = 0
        /\ IF Len(extractImages(lastPayload)) > 0
           THEN outcome = "Success" /\ result = extractImages(lastPayload)
           ELSE outcome = "UnexpectedResponse" /\ result = <<>>

C8_Witness ==
    /\ submitResult = "no_task_id" /\ outcome = "Success"
    /\ Len(result) > 0 /\ statusQueries = 0

\* C9: SUCCEED with an empty extraction still ends in success, with zero image
\* references and one diagnostic.
C9_EmptySucceedIsSuccess ==
    (lastStatus = "SUCCEED" /\ Len(extractImages(lastPayload)) = 0) =>
        /\ pc = "done" /\ outcome = "Success"
        /\ result = <<>>
        /\ warned = 1

C9_Witness ==
    /\ lastStatus = "SUCCEED" /\ outcome = "Success" /\ result = <<>> /\ warned = 1

\* C10: an image-edit job with an empty image list fails with the
\* missing-reference-image error before any image fetch, submission or status
\* query.
C10_MissingReferenceBeforeNetwork ==
    (isImageEditModel /\ Len(images) = 0) =>
        /\ fetchCalls = 0 /\ submitCalls = 0 /\ statusQueries = 0 /\ sleeps = 0
        /\ (pc = "done" => outcome = "MissingReferenceImage")

C10_Witness ==
    /\ isImageEditModel /\ Len(images) = 0
    /\ pc = "done" /\ outcome = "MissingReferenceImage"

\* C11: every terminal state of a ModelScope job (success, submission
\* failure, upstream FAILED, poll timeout, missing reference image, a thrown
\* status query, a non-JSON response) has emitted exactly one terminal report
\* (logApiCallEnd) by the time the handler returns or throws.
C11_ExactlyOneTerminalReport ==
    ( /\ pc = "done"
      /\ \/ outcome \in {"Success", "SubmitError", "UpstreamTaskFailed", "PollTimeout",
                        "MissingReferenceImage"}
         \/ submitResult # "none" )
    => apiCallEnds = 1

\* the symbols of the standard and the URL-safe alphabet
IsAlphabetCode(c) ==
    c \in (65..90) \cup (97..122) \cup (48..57) \cup {43, 47, 45, 95}

\* length of the text once right-padded to a multiple of 4
PaddedLen(cleaned) == 4 * ((Len(cleaned) + 3) \div 4)

\* an '=' of the text that is not in the last one or two positions of the
\* final 4-symbol group, or that is followed by another symbol than '='
MisplacedEquals(cleaned) ==
    \E k \in 1..Len(cleaned) :
        /\ cleaned[k] = EqualsCode
        /\ \/ k < PaddedLen(cleaned) - 1
           \/ (k = PaddedLen(cleaned) - 1 /\ Len(cleaned) > k /\ cleaned[k + 1] # EqualsCode)

HasForeignSymbol(cleaned) ==
    \E k \in 1..Len(cleaned) : ~IsAlphabetCode(cleaned[k]) /\ cleaned[k] # EqualsCode

\* C13: decodeBase64 fails with the invalid-character error whenever the
\* whitespace-stripped input holds a symbol outside the alphabet (any char
\* code, also >= 256) or an '=' outside the last one or two positions of the
\* final group; it never returns bytes for such input.
C13_ForeignSymbolRejected ==
    ( /\ cpc = "text_decoded"
      /\ \/ HasForeignSymbol(StripWhitespace(encoded))
         \/ MisplacedEquals(StripWhitespace(encoded)) )
    => (~decoded.ok /\ decoded.error = "InvalidCharacter")

\* C18: an input of stripped length 1 mod 4 fails with the invalid-length
\* error; an input of stripped length 2 or 3 mod 4 decodes as the same text
\* with its padding present.
C18_LengthOneModFourIsInvalidLength ==
    cpc = "text_decoded" =>
        LET cleaned == StripWhitespace(encoded)
            mod     == Len(cleaned) % 4
        IN  /\ mod = 1 => (~decoded.ok /\ decoded.error = "InvalidLength")
            /\ mod \in {2, 3} =>
                 decoded = decodeBase64(cleaned \o Repeat(EqualsCode, 4 - mod))

\* number of '=' that end the encoding of n bytes
PadCount(n) == IF n % 3 = 1 THEN 2 ELSE IF n % 3 = 2 THEN 1 ELSE 0

\* the symbols of the '+/' alphabet
IsStandardCode(c) == c \in (65..90) \cup (97..122) \cup (48..57) \cup {43, 47}

\* C19: encodeBase64 returns "" for empty input and otherwise exactly
\* ceil(n/3)*4 symbols of the '+/' alphabet, ending in '==' when n mod 3 = 1,
\* in one '=' when n mod 3 = 2, with no '=' anywhere else.
C19_EncodedShape ==
    cpc \in {"encoded", "decoded"} =>
        LET n == Len(bytesIn)
        IN  /\ n = 0 => encoded = <<>>
            /\ Len(encoded) = 4 * ((n + 2) \div 3)
            /\ \A k \in 1..Len(encoded) :
                 IF k > Len(encoded) - PadCount(n)
                 THEN encoded[k] = EqualsCode
                 ELSE IsStandardCode(encoded[k])

C19_Witness ==
    /\ cpc = "encoded" /\ Len(bytesIn) = 1 /\ Len(encoded) = 4
    /\ encoded[2] # EqualsCode /\ encoded[3] = EqualsCode /\ encoded[4] = EqualsCode

\* the hosts the guard is specified to treat as private, told from the parts
\* the host was written from
SpecifiedPrivate(h) ==
    IF h.kind = "v4"
    THEN /\ \A k \in 1..4 : h.octets[k] \in 0..255
         /\ \/ h.octets = <<0, 0, 0, 0>>
            \/ h.octets[1] = 127
            \/ h.octets[1] = 10
            \/ (h.octets[1] = 172 /\ h.octets[2] \in 16..31)
            \/ (h.octets[1] = 192 /\ h.octets[2] = 168)
            \/ (h.octets[1] = 169 /\ h.octets[2] = 254)
    ELSE IF h.kind = "name"
    THEN LET t == toLowerCase(h.text)
         IN  \/ t = <<"l","o","c","a","l","h","o","s","t">>
             \/ (Len(t) > 10 /\ SubSeq(t, Len(t) - 9, Len(t))
                                   = <<".","l","o","c","a","l","h","o","s","t">>)
    ELSE LET b == toLowerCase(h.base)
         IN  \/ b = <<":",":","1">>
             \/ (Len(b) >= 2 /\ b[1] = "f" /\ b[2] \in {"c", "d"})
             \/ (Len(b) >= 5 /\ SubSeq(b, 1, 5) = <<"f","e","8","0",":">>)

\* C17: isPrivateIp(host) is true exactly for localhost, *.localhost, 0.0.0.0,
\* ::1, dotted IPv4 literals with octets in 0..255 inside 127/8, 10/8,
\* 172.16/12, 192.168/16 or 169.254/16, and colon-containing IPv6 literals
\* that without their %zone equal ::1 or start with fc, fd or fe80:; for every
\* other host it is false.
C17_PrivateExactlyForListedHosts ==
    gpc = "done" => (gResult <=> SpecifiedPrivate(gHost))

C17_Witness ==
    /\ gpc = "done" /\ gResult
    /\ gHost.kind = "v4" /\ gHost.octets[1] = 172 /\ gHost.octets[2] = 31

\* the decimal text of a number below 100, as char codes
DecimalCodes(n) == IF n < 10 THEN <<48 + n>> ELSE <<48 + (n \div 10), 48 + (n % 10)>>

\* the response declares a content-length above the ceiling
DeclaresMoreThan(resp, ceiling) ==
    \E n \in 0..99 : resp.contentLength = Header(DecimalCodes(n)) /\ n > ceiling

\* the media type each sampled content type declares; <<>> when it declares
\* no image type
DeclaredImageType(ct) ==
    IF ct = Header(<<105, 109, 97, 103, 101, 47, 112, 110, 103>>) THEN <<105, 109, 97, 103, 101, 47, 112, 110, 103>>
    ELSE IF ct = Header(<<73, 77, 65, 71, 69, 47, 74, 80, 69, 71, 59, 32, 99, 104, 97, 114, 115, 101, 116, 61, 98, 105, 110, 97, 114, 121>>) THEN <<105, 109, 97, 103, 101, 47, 106, 112, 101, 103>>
    ELSE IF ct = Header(<<32, 105, 109, 97, 103, 101, 47, 119, 101, 98, 112, 32>>) THEN <<105, 109, 97, 103, 101, 47, 119, 101, 98, 112>>
    ELSE <<>>

\* C12: a 2xx image response that declares a content-length above the byte
\* ceiling makes the fetch fail with the too-large error without reading the
\* body: no reader is obtained and no chunk is consumed.
C12_DeclaredTooLargeNeverRead ==
    ( /\ iResp.kind = "response" /\ iResp.ok
      /\ DeclaredImageType(iResp.contentType) # <<>>
      /\ DeclaresMoreThan(iResp, iMaxBytes) )
    => /\ ipc = "done" /\ iOutcome = "TooLarge"
       /\ ~iReaderObtained /\ iReads = 0 /\ iChunks = <<>> /\ iTotal = 0

C12_Witness ==
    /\ ipc = "done" /\ iOutcome = "TooLarge" /\ iMaxBytes = 2
    /\ iResp.kind = "response" /\ iResp.contentLength = Header(<<51>>)
    /\ iResp.body.present /\ Len(iResp.body.chunks) > 0 /\ iReads = 0

\* the text after the first comma
PayloadOf(text) == SubSeq(text, indexOf(text, CommaCode) + 2, Len(text))

\* C14: every ResolvedImage has size = length(bytes) <= maxBytes, a mime
\* starting with image/, base64 = encodeBase64(bytes) and dataUrl = data: +
\* mime + ;base64, + base64; decoding the payload of dataUrl gives bytes; a
\* canonical inline image data:image/png;base64, + encodeBase64(B) resolves
\* to size |B| and a dataUrl identical to the input.
C14_ResolvedImageWellFormed ==
    /\ iOutcome = "Resolved" =>
         /\ ipc = "done"
         /\ iImage.size = Len(iImage.bytes)
         /\ iImage.size <= iMaxBytes
         /\ startsWith(iImage.mime, ImagePrefix)
         /\ iImage.base64 = encodeBase64(iImage.bytes)
         /\ iImage.dataUrl = DataPrefix \o iImage.mime \o Base64Mark \o iImage.base64
         /\ decodeBase64(PayloadOf(iImage.dataUrl)).ok
         /\ decodeBase64(PayloadOf(iImage.dataUrl)).bytes = iImage.bytes
         /\ iImage.url = iRef
    /\ \A b \in ImgBytes :
         ( /\ ipc = "done" /\ Len(b) <= iMaxBytes
           /\ iRef = InlineRef(DataPrefix \o <<105, 109, 97, 103, 101, 47, 112, 110, 103>> \o Base64Mark \o encodeBase64(b)) )
         => /\ iOutcome = "Resolved"
            /\ iImage.size = Len(b) /\ iImage.bytes = b
            /\ iImage.dataUrl = iRef.text

C14_Witness ==
    /\ iOutcome = "Resolved" /\ iFetchCalls = 1 /\ iReads = 3
    /\ iImage.bytes = <<0, 63, 128>> /\ iImage.size = 3

\* metadata without a base64 marker: "image/png", "text/plain"
NoMarkerMetas == { <<105, 109, 97, 103, 101, 47, 112, 110, 103>>, <<116, 101, 120, 116, 47, 112, 108, 97, 105, 110>> }

\* metadata with the marker whose media type is not an image type:
\* ";base64", "text/plain;base64", "base64"
NonImageMetas == { <<59, 98, 97, 115, 101, 54, 52>>, <<116, 101, 120, 116, 47, 112, 108, 97, 105, 110, 59, 98, 97, 115, 101, 54, 52>>, <<98, 97, 115, 101, 54, 52>> }

\* the failure, or "Resolved", specified for the inline image with metadata m
\* and payload pl
InlineVerdict(m, pl, ceiling) ==
    IF m \in NoMarkerMetas THEN "UnsupportedEncoding"
    ELSE IF m \in NonImageMetas THEN "InvalidMediaType"
    ELSE IF ~decodeBase64(pl).ok THEN decodeBase64(pl).error
    ELSE IF Len(decodeBase64(pl).bytes) > ceiling THEN "TooLarge"
    ELSE "Resolved"

\* C15: a reference starting with data: fails by the first failing check in
\* the order: no comma (invalid reference), no base64 marker (unsupported
\* encoding), media type not image/ (invalid media type), then the codec, and
\* only then decoded length above the ceiling (too large); the transport is
\* never invoked.
C15_InlineChecksInOrder ==
    (iRef.ref.form = "data" /\ startsWith(iRef.text, DataPrefix)) =>
        /\ iFetchCalls = 0
        /\ ipc \in {"call", "done"}
        /\ ipc = "done" =>
             /\ \A m \in MetaSamples :
                  iRef.text = DataPrefix \o m => iOutcome = "InvalidReference"
             /\ iRef.text = DataPrefix => iOutcome = "InvalidReference"
             /\ \A m \in MetaSamples, pl \in PayloadSamples :
                  iRef.text = DataPrefix \o m \o <<CommaCode>> \o pl
                  => iOutcome = InlineVerdict(m, pl, iMaxBytes)

C15_Witness ==
    /\ ipc = "done" /\ iOutcome = "UnsupportedEncoding" /\ iFetchCalls = 0
    /\ iRef.text = DataPrefix \o <<116, 101, 120, 116, 47, 112, 108, 97, 105, 110>> \o <<CommaCode>> \o <<81, 33, 81, 61>>

\* C16: for a 2xx response the media type of the resolved image is the
\* declared content type cut at the first ';', trimmed and lower-cased; when
\* the content type is absent or that value does not start with image/ the
\* call fails with the invalid-media-type error before the body is read.
C16_MediaTypeFromContentType ==
    (iResp.kind = "response" /\ iResp.ok) =>
        /\ iOutcome = "Resolved" =>
             (iImage.mime = DeclaredImageType(iResp.contentType) /\ iImage.mime # <<>>)
        /\ DeclaredImageType(iResp.contentType) = <<>> =>
             /\ ipc = "done" /\ iOutcome = "InvalidMediaType"
             /\ ~iReaderObtained /\ iReads = 0
        /\ DeclaredImageType(iResp.contentType) # <<>> => iOutcome # "InvalidMediaType"

C16_Witness ==
    /\ iOutcome = "Resolved" /\ iResp.kind = "response"
    /\ iResp.contentType = Header(<<73, 77, 65, 71, 69, 47, 74, 80, 69, 71, 59, 32, 99, 104, 97, 114, 115, 101, 116, 61, 98, 105, 110, 97, 114, 121>>)
    /\ iImage.mime = <<105, 109, 97, 103, 101, 47, 106, 112, 101, 103>>

\* the entry specified for an image the transport delivered
SentImage(resp, fmt) ==
    IF fmt = "raw_base64" THEN encodeBase64(Concat(resp.body.chunks))
    ELSE DataPrefix \o DeclaredImageType(resp.contentType) \o Base64Mark
             \o encodeBase64(Concat(resp.body.chunks))

RemoteCount(urls, upto) == Cardinality({k \in 1..upto : urls[k].ref.form = "url"})

NonBlankCount(urls, upto) == Cardinality({k \in 1..upto : NonBlankUrl(urls[k])})

\* C20: in fetch_to_base64 mode prepareImagesForUpstream returns one entry
\* per non-empty reference, in input order, each the data URL (or the bare
\* base64 text) of the image resolved for it; the first reference that fails
\* fails the whole call and no later reference is fetched.  In passthrough
\* mode the non-empty references are returned unchanged with zero transport
\* calls.
C20_OneEntryPerReferenceInOrder ==
    /\ (ppc = "done" /\ pMode = "fetch_to_base64" /\ pOutcome = "Returned") =>
         LET refs == SelectSeq(pUrls, NonBlankUrl)
         IN  /\ Len(pOut) = Len(refs)
             /\ Len(pFetched) = RemoteCount(pUrls, Len(pUrls))
             /\ \A k \in 1..Len(refs) :
                  IF refs[k].ref.form = "url"
                  THEN \E j \in 1..Len(pFetched) :
                          /\ pFetched[j].slot = k
                          /\ pUrls[pFetched[j].idx] = refs[k]
                          /\ pOut[k] = SentImage(pFetched[j].resp, pFormat)
                  ELSE pOut[k] = (IF pFormat = "raw_base64" THEN PayloadOf(refs[k].text)
                                                            ELSE refs[k].text)
    /\ (ppc = "done" /\ pMode = "fetch_to_base64" /\ pOutcome # "Returned") =>
         /\ pIdx \in 1..Len(pUrls)
         /\ NonBlankUrl(pUrls[pIdx])
         /\ Len(pOut) = NonBlankCount(pUrls, pIdx - 1)
         /\ Len(pFetched) <= RemoteCount(pUrls, pIdx)
    /\ \A j \in 1..Len(pFetched) :
         /\ pFetched[j].idx <= pIdx
         /\ pUrls[pFetched[j].idx].ref.form = "url"
         /\ j > 1 => pFetched[j - 1].idx < pFetched[j].idx
    /\ iFetchCalls <= 1
    /\ pMode = "passthrough" =>
         /\ Len(pFetched) = 0 /\ iFetchCalls = 0 /\ ipc = "idle"
         /\ ppc = "done" => (pOutcome = "Returned" /\ pOut = SelectSeq(pUrls, NonBlankUrl))

C20_Witness ==
    /\ ppc = "done" /\ pMode = "fetch_to_base64" /\ pOutcome = "Returned"
    /\ Len(pUrls) = 3 /\ pUrls[1] = RemoteRef(CdnUrl) /\ pUrls[2] = NoRef
    /\ pUrls[3] = InlineRef(PngDataUrl)
    /\ Len(pOut) = 2 /\ pOut[2] = PngDataUrl /\ Len(pFetched) = 1

C25_Inv ==
    /\ statusQueries <= 2 * pollingAttempts
    /\ statusQueries <= 2 * maxAttempts
    /\ ~configuredTaskType => (statusQueries = pollingAttempts /\ pc # "await_retry")
    /\ pc = "await_retry" =>
         /\ configuredTaskType /\ lastStatus = "first_non2xx"
         /\ answered = pollingAttempts - 1
    /\ pc = "await_check" => statusQueries <= 2 * pollingAttempts - 1

\* C25: a poll attempt issues at most two status queries; the second is sent
\* only after a non-2xx first response with a task-type header configured, at
\* once (no sleep in between) and without that header, and its response alone
\* decides the attempt; with no header configured there is one query per
\* attempt; a job issues at most 120 status queries.
C25_OneImmediateRetryPerAttempt ==
    [] C25_Inv
    /\ [][pc' = "await_retry" =>
            /\ pc = "await_check" /\ configuredTaskType
            /\ lastStatus' = "first_non2xx"
            /\ statusQueries' = statusQueries + 1
            /\ sleeps' = sleeps /\ sleptMs' = sleptMs
            /\ pollingAttempts' = pollingAttempts /\ answered' = answered]_vars
    /\ [][pc = "await_retry" =>
            /\ statusQueries' = statusQueries /\ sleeps' = sleeps
            /\ answered' = answered + 1
            /\ \/ (lastStatus' = "non2xx" /\ pc' = "poll_loop" /\ outcome' = "none")
               \/ (lastStatus' \in NonTerminalStatuses /\ pc' = "poll_loop")
               \/ (lastStatus' \in TerminalStatuses /\ pc' = "done")
               \/ (lastStatus' = lastStatus /\ pc' = "done"
                     /\ outcome' \in {"Timeout", "TransportError", "MalformedResponse"})]_vars

C25_Witness ==
    /\ configuredTaskType /\ pc = "done" /\ outcome = "PollTimeout"
    /\ pollingAttempts = maxAttempts /\ statusQueries = 2 * maxAttempts

\* the qualifying references of a payload, every location counted once
QualifyingOnce(payload) ==
    SelectSeq(   tryArray(payload.output_images)
              \o tryArray(payload.out_output_images)
              \o tryArray(payload.out_images)
              \o tryArray(payload.images)
              \o tryArray(payload.data)
              \o pushAny(payload.output_image)
              \o pushAny(payload.out_output_image)
              \o pushAny(payload.out_image),
              KeepImage)

Occurrences(seq, x) == Cardinality({k \in 1..Len(seq) : seq[k] = x})

\* C26: extractImages returns the qualifying elements of the probed
\* locations, each location probed exactly once: a reference appears in the
\* result exactly as many times as it appears in the payload.
C26_EachLocationProbedOnce ==
    outcome = "Success" =>
        /\ Len(result) = Len(QualifyingOnce(lastPayload))
        /\ \A k \in 1..Len(result) :
             Occurrences(result, result[k])
               = Occurrences(QualifyingOnce(lastPayload), result[k])

\* C27: a non-2xx or failed submission, and a status query that throws or
\* whose 2xx body is not JSON, end the job at once with that error; no
\* submission or status query follows, and nothing happens after the job has
\* ended.
C27_NoRetryOfUpstreamFailures ==
    [] ( /\ submitCalls <= 1
         /\ submitResult \in {"non2xx", "thrown", "nonjson"} =>
              /\ pc = "done" /\ statusQueries = 0 /\ sleeps = 0
              /\ outcome = (IF submitResult = "non2xx" THEN "SubmitError"
                            ELSE IF submitResult = "nonjson" THEN "MalformedResponse"
                            ELSE outcome)
              /\ outcome \in {"SubmitError", "MalformedResponse", "Timeout", "TransportError"}
         /\ ( /\ submitResult = "task_id" /\ pollingAttempts > 0
              /\ answered = pollingAttempts
              /\ lastStatus \in {"none", "first_non2xx"} ) =>
              /\ pc = "done"
              /\ outcome \in {"Timeout", "TransportError", "MalformedResponse"} )
    /\ [][pc # "done"]_vars
    /\ [][outcome' \in {"SubmitError", "Timeout", "TransportError", "MalformedResponse"}
            => (submitCalls' = submitCalls /\ statusQueries' = statusQueries
                  /\ sleeps' = sleeps /\ pc' = "done")]_vars

C27_Witness ==
    /\ pc = "done" /\ outcome = "MalformedResponse" /\ submitResult = "task_id"
    /\ pollingAttempts = 2 /\ statusQueries = 2 /\ answered = 2

\* the bytes of the first n chunks of the response body
Delivered(n) == Concat(SubSeq(iResp.body.chunks, 1, n))

Streamed == iReaderObtained /\ ipc \in {"reading", "cancelling", "done"}

C23_Inv ==
    /\ iLockHeld <=> ipc \in {"reading", "cancelling"}
    /\ Streamed =>
         /\ iReads <= Len(iResp.body.chunks) + 1
         /\ iCancels <= 1
         /\ ipc = "reading" =>
              /\ iCancels = 0 /\ iReads <= Len(iResp.body.chunks)
              /\ iChunks = SubSeq(iResp.body.chunks, 1, iReads)
              /\ iTotal = Len(Delivered(iReads)) /\ iTotal <= iMaxBytes
         /\ (ipc = "cancelling" \/ (ipc = "done" /\ iOutcome = "TooLarge")) =>
              /\ iCancels = 1
              /\ iReads \in 1..Len(iResp.body.chunks)
              /\ Len(Delivered(iReads)) > iMaxBytes
              /\ Len(Delivered(iReads - 1)) <= iMaxBytes
         /\ (ipc = "done" /\ iOutcome = "Resolved") =>
              /\ iCancels = 0
              /\ iReads = Len(iResp.body.chunks) + 1
              /\ iImage.bytes = Delivered(Len(iResp.body.chunks))
              /\ Len(iImage.bytes) <= iMaxBytes
         /\ (ipc = "done" /\ iOutcome \notin {"TooLarge", "Resolved"}) =>
              /\ iCancels = 0
              /\ iOutcome \in {"Timeout", "TransportError"}
              /\ Len(Delivered(iReads - 1)) <= iMaxBytes

\* C23: the streaming read fails with the too-large error at the first chunk
\* that takes the cumulative count past the ceiling, whatever content-length
\* was declared; it then cancels the reader once and reads no more; the lock
\* is released on every exit; a stream that ends within the ceiling yields the
\* concatenation of its chunks in arrival order.
C23_StreamingCeiling ==
    [] C23_Inv
    /\ [][ipc = "cancelling" =>
            (iReads' = iReads /\ iCancels' = iCancels /\ iChunks' = iChunks
               /\ (ipc' = "cancelling" \/ (ipc' = "done" /\ iOutcome' = "TooLarge")))]_vars
    /\ [][ipc = "done" => iReads' = iReads \/ ipc' = "idle"]_vars

C23_Witness ==
    /\ ipc = "done" /\ iOutcome = "TooLarge" /\ iReaderObtained
    /\ iResp.contentLength = NoHeader
    /\ iReads = 2 /\ Len(iResp.body.chunks) = 3 /\ iCancels = 1 /\ ~iLockHeld

Awaiting == ipc \in {"fetching", "error_body", "reading", "cancelling"}

\* the timer is pending exactly while the call awaits and has not expired,
\* and it is cleared on every exit
C24_TimerClearedOnExit ==
    /\ Awaiting => (iTimerArmed <=> ~iAborted)
    /\ ~Awaiting => ~iTimerArmed
    /\ ipc \in {"idle", "call"} => ~iAborted

\* no image is returned once the timer has expired
C24_NoImageAfterExpiry == (ipc = "done" /\ iAborted) => iOutcome # "Resolved"

\* C24: one timer, armed before the transport call and pending during the
\* header wait and the body streaming; when it expires the call ends in the
\* timeout failure; on every exit the timer is cleared.
C24_ExpiryEndsInTimeout ==
    /\ C24_TimerClearedOnExit
    /\ (ipc = "done" /\ iAborted) => iOutcome = "Timeout"

RECURSIVE TextsOf(_)
TextsOf(parts) ==
    IF parts = <<>> THEN <<>>
    ELSE (IF Head(parts).kind = "text" THEN <<Head(parts).text>> ELSE <<>>)
         \o TextsOf(Tail(parts))

RECURSIVE UrlsOf(_)
UrlsOf(parts) ==
    IF parts = <<>> THEN <<>>
    ELSE (IF Head(parts).kind = "image" /\ trim(Head(parts).url) # <<>>
          THEN <<Head(parts).url>> ELSE <<>>)
         \o UrlsOf(Tail(parts))

Extracted == chpc = "done" /\ chParsed.err = "none"

\* the normalized messages the extraction was given
Normalized == normalizeChatRequest(chParsed.body)

\* prompt and images come from the last user message alone
C21_FromLastUserMessage ==
    Extracted =>
        LET idx == LastUserIndex(Normalized)
        IN  /\ idx = 0 => (chExtract.prompt = <<>> /\ chExtract.images = <<>>)
            /\ idx > 0 =>
                 /\ chExtract.prompt
                      = trim(join(TextsOf(Normalized[idx].parts), NewlineCode))
                 /\ chExtract.images = UrlsOf(Normalized[idx].parts)

\* the last user message of the request has plain string content
LastUserIsString ==
    /\ LastUserIndex(Normalized) > 0
    /\ chParsed.body[LastUserIndex(Normalized)].content.kind = "string"

LastUserString == chParsed.body[LastUserIndex(Normalized)].content.text

\* C21 as stated: extractLastUserPromptAndImages uses only the last user
\* message (prompt = its text parts joined with newline and trimmed, images =
\* its non-empty image URLs in part order, both empty when there is no user
\* message), and for plain string content the prompt equals that string.
C21_PromptEqualsStringContent ==
    /\ C21_FromLastUserMessage
    /\ (Extracted /\ LastUserIsString) =>
         (chExtract.prompt = LastUserString /\ chExtract.images = <<>>)

\* C21 (amended): as above, and for plain string content the prompt equals
\* that string with leading and trailing whitespace removed.
C21_PromptOfLastUserMessage ==
    /\ C21_FromLastUserMessage
    /\ (Extracted /\ LastUserIsString) =>
         (chExtract.prompt = trim(LastUserString) /\ chExtract.images = <<>>)

C21_Witness ==
    /\ Extracted /\ Len(chBody) = 2
    /\ chBody[1] = RawMessage("user", StrContent(PaddedText))
    /\ chBody[2] = RawMessage("assistant", ArrContent(<<TextItem(CatText), ImageUrlItem(UrlA)>>))
    /\ chExtract.prompt = <<100, 111, 103>>
    /\ chExtract.images = <<>>

\* the data URLs of the uploaded image files, in upload order
UploadedDataUrls ==
    LET ups == SelectSeq(chFiles, IsUpload)
    IN  [k \in 1..Len(ups) |->
            DataPrefix \o normalizeFileMime(ups[k].type) \o Base64Mark
              \o encodeBase64(ups[k].bytes)]

\* what the extraction yields for the payload alone
WithoutFiles == extractLastUserPromptAndImages(normalizeChatRequest(chBody))

\* C22: a multipart request with k >= 1 image files yields
\* injectedImageCount = k; the last user message keeps its content (a string
\* as one text part, an array in order) followed by k image_url parts, one per
\* file in upload order, each "data:" + mime + ";base64," + encodeBase64(bytes);
\* the other messages are unchanged; the extracted prompt is the one of the
\* payload alone and the extracted images are its images followed by the k
\* data URLs.
C22_UploadsAppendedToLastUserMessage ==
    (Extracted /\ Len(SelectSeq(chFiles, IsUpload)) >= 1) =>
        LET k   == Len(SelectSeq(chFiles, IsUpload))
            idx == LastUserIndex(chBody)
        IN  /\ chParsed.injectedImageCount = k
            /\ Len(UploadedDataUrls) = k
            /\ \A j \in 1..Len(chBody) : j # idx => chParsed.body[j] = chBody[j]
            /\ idx > 0 =>
                 /\ chParsed.body[idx].role = "user"
                 /\ chParsed.body[idx].content.kind = "array"
                 /\ chParsed.body[idx].content.items
                      = (IF chBody[idx].content.kind = "string"
                         THEN <<TextItem(chBody[idx].content.text)>>
                         ELSE chBody[idx].content.items)
                        \o [n \in 1..k |-> ImageUrlItem(UploadedDataUrls[n])]
            /\ chExtract.prompt = WithoutFiles.prompt
            /\ chExtract.images = WithoutFiles.images \o UploadedDataUrls

\* the same, for payloads whose last message that counts as a user message
\* carries the role "user" explicitly
C22_HoldsForExplicitUserRole ==
    LET n == LastUserIndex(normalizeChatRequest(chBody))
    IN  (n > 0 /\ chBody[n].role = "user") => C22_UploadsAppendedToLastUserMessage

ConWaiting(q) == q.pc \in {"resolve_wait", "submit_wait", "query_wait", "retry_wait"}

\* what one request may look like, whatever the other one does
C28_OwnState(q) ==
    /\ q.inFlight \in {0, 1}
    /\ q.inFlight = 1 <=> ConWaiting(q)
    /\ q.attempts = q.sleeps /\ q.attempts <= maxAttempts
    /\ q.phase < 3 => q.attempts = 0
    /\ q.pc = "done" =>
         /\ q.outcome = "PollTimeout" =>
              (q.attempts = maxAttempts /\ q.last \in {"non2xx", "PENDING"})
         /\ q.outcome = "Success" => q.last \in {"images", "SUCCEED"}
         /\ q.outcome = "Failed" => q.last = "FAILED"
         /\ q.last = "SUCCEED" => q.outcome = "Success"
         /\ q.last = "FAILED" => q.outcome = "Failed"
         /\ q.last \in {"non2xx", "PENDING"} /\ q.phase = 3 => q.outcome = "PollTimeout"
    /\ q.pc # "done" => q.outcome = "none"

\* the calls of one request come in the order resolutions, one submission,
\* status queries, and a step changes one request only
C28_Order ==
    /\ [][\E r \in Reqs : \A q \in Reqs \ {r} : con'[q] = con[q]]_vars
    /\ [][\A r \in Reqs :
            /\ con'[r].phase >= con[r].phase
            /\ (con'[r].pc = "submit_wait" /\ con[r].pc # "submit_wait")
                 => (con[r].phase < 2 /\ con[r].left <= 1)
            /\ (con'[r].pc = "resolve_wait" /\ con[r].pc # "resolve_wait")
                 => con[r].phase = 0
            /\ con[r].pc = "done" => con'[r] = con[r]]_vars

IssuesQuery(r) ==
    /\ con'[r].pc \in {"query_wait", "retry_wait"}
    /\ con'[r].pc # con[r].pc

\* C28 as stated: each request has at most one upstream call in flight and
\* issues resolutions, then one submission, then status queries one after
\* another, every query starting only after the previous response and the
\* following sleep; attempt counter and outcome depend on the request's own
\* responses only.
C28_QueryOnlyAfterSleep ==
    /\ [] (\A r \in Reqs : C28_OwnState(con[r]))
    /\ C28_Order
    /\ [][\A r \in Reqs :
            IssuesQuery(r) => (con[r].pc = "sleeping" /\ con'[r].sleeps = con[r].sleeps + 1)]_vars

\* C28 (amended): as above, except that the header-less retry of an attempt
\* starts at once after the non-2xx response of the attempt's first query;
\* the first query of every attempt starts only after the sleep.
C28_SequentialAndIndependent ==
    /\ [] (\A r \in Reqs : C28_OwnState(con[r]))
    /\ C28_Order
    /\ [][\A r \in Reqs :
            IssuesQuery(r) =>
               IF con'[r].pc = "query_wait"
               THEN con[r].pc = "sleeping" /\ con'[r].sleeps = con[r].sleeps + 1
               ELSE /\ con[r].pc = "query_wait" /\ conTaskType
                    /\ con'[r].last = "non2xx" /\ con'[r].sleeps = con[r].sleeps
                    /\ con'[r].inFlight = 1]_vars

C28_Witness ==
    /\ con[1].pc = "retry_wait" /\ con[1].attempts = maxAttempts
    /\ con[2].pc = "resolve_wait" /\ con[2].left = 1 /\ con[2].attempts = 0

====
